---- MODULE Spec2Model ----
(***************************************************************************)
(* Event ingestion pipeline of verifi-services (indexer-service):          *)
(* the resumable ledger poller (EventListener.Start / poll), the           *)
(* dispatcher (processTx), the event handlers and the progress store.      *)
(*                                                                         *)
(* Strings whose length or content the code inspects (addresses, decimal   *)
(* amounts, the stored checkpoint) are sequences of one-character strings. *)
(* Activity rows leave out the "timestamp" column, which no handler reads  *)
(* back.                                                                   *)
(***************************************************************************)
EXTENDS Integers, Sequences, FiniteSets, TLC

VARIABLES
    tip,            \* ledger: latest committed version
    ledger,         \* ledger: version -> transaction shape (other versions hold block metadata)
    sync_state,     \* table sync_state: value of key last_indexed_version, or NoRow
    Activity,       \* table "Activity": set of rows
    Market,         \* table "Market": marketAddress -> status
    pc,             \* position of the listener goroutine
    lastVersion,    \* EventListener.lastVersion
    latestVersion,  \* poll: latestVersion (end)
    start,          \* poll: start
    txs,            \* poll: fetched batch, <<first version, count>>
    txIdx,          \* poll: index in `for _, tx := range txs`
    evIdx,          \* processTx: index in `for _, event := range tx.Events`
    hist,           \* history of the run (observations only, never read by the program)
    env,            \* the scenario: what the ledger may carry, what the history keeps
    ticker,         \* Start: ticks buffered in ticker.C (the channel holds one)
    polls,          \* invocations of poll that have not returned
    rotator,        \* APIKeyRotator: aptosKeys, noditKeys, currentIdx, lastUsed
    mu,             \* APIKeyRotator.mu: the caller that holds it, or 0
    now,            \* wall clock, in milliseconds
    call,           \* the callers of the rotator: position and locals of each
    rhist,          \* the acquisitions that returned, in order of return
    ctx,            \* the context main passes to Start: "live" or "cancelled"
    net,            \* ledger node and network: "flaky" (calls may fail) or "healthy"
    globalBuffer,   \* logbuffer.globalBuffer: entries, maxSize
    bufmu,          \* Buffer.mu (RWMutex): the writer that holds it (or 0), the readers
    bufcall,        \* the callers of Add, GetRecent and Clear: position and arguments
    bufhist,        \* entries added so far, entries added when Clear last ran, last result of GetRecent
    stats,          \* sync Service.stats: MetricsSyncCount, Errors
    statsmu,        \* sync Service.mu: the caller that holds it, or 0
    run,            \* the calls of SyncMetrics: position and locals of each
    runhist         \* calls of SyncMetrics that returned nil, and that returned the query's error

vars == <<tip, ledger, sync_state, Activity, Market, pc, lastVersion,
          latestVersion, start, txs, txIdx, evIdx, hist, env,
          ticker, polls, rotator, mu, now, call, rhist, ctx, net,
          globalBuffer, bufmu, bufcall, bufhist, stats, statsmu, run, runhist>>

----------------------------------------------------------------------------
(* Bounds *)

MaxTip == 102
MaxTxs == 2
MaxCallers == 2
MaxCalls == 3
MaxKeys == 2
MaxNow == 200
MaxSize == 2
MaxOps == 4
MaxRuns == 3

(* Program constants *)

batchSize == 100
SliceLen == 10

NoRow == <<"no row">>

----------------------------------------------------------------------------
(* strconv.FormatUint(n, 10) and strconv.ParseUint(s, 10, 64) *)

Digits == <<"0", "1", "2", "3", "4", "5", "6", "7", "8", "9">>

DigitVal(c) == (CHOOSE i \in 1..10 : Digits[i] = c) - 1

IsDigit(c) == \E i \in 1..10 : Digits[i] = c

RECURSIVE FormatUint(_)
FormatUint(n) ==
    IF n < 10 THEN <<Digits[n + 1]>>
    ELSE Append(FormatUint(n \div 10), Digits[(n % 10) + 1])

\* the value of the first n digits of s
RECURSIVE DecPrefix(_, _)
DecPrefix(s, n) ==
    IF n = 0 THEN 0
    ELSE 10 * DecPrefix(s, n - 1) + DigitVal(s[n])

DecValue(s) == DecPrefix(s, Len(s))

\* [ok, v]: ok is FALSE where ParseUint returns an error
ParseUint(s) ==
    IF Len(s) > 0 /\ \A i \in 1..Len(s) : IsDigit(s[i])
    THEN [ok |-> TRUE, v |-> DecValue(s)]
    ELSE [ok |-> FALSE, v |-> 0]

\* strconv.ParseFloat on the decimal strings the ledger emits; 0 on error
ParseFloat(s) == IF ParseUint(s).ok THEN ParseUint(s).v ELSE 0

----------------------------------------------------------------------------
(* Ledger contents *)

moduleAddress == "0xverifi"

MarketAddr == <<"0", "x", "m", "a", "r", "k", "e", "t", "0", "1">>
OtherMarket == <<"0", "x", "m", "a", "r", "k", "e", "t", "0", "2">>
GhostMarket == <<"0", "x", "m", "a", "r", "k", "e", "t", "9", "9">>
UserAddr   == <<"0", "x", "u", "s", "e", "r", "0", "0", "0", "0", "1">>
EmptyStr   == <<>>

Str(s)  == [tag |-> "string", s |-> s, b |-> FALSE]
Bool(b) == [tag |-> "bool", s |-> EmptyStr, b |-> b]

EventType(name) == <<moduleAddress, "verifi_protocol", name>>

MintData ==
    [f \in {"market_address", "user", "apt_amount_in", "shares_out", "is_yes"} |->
        CASE f = "market_address" -> Str(MarketAddr)
          [] f = "user"           -> Str(UserAddr)
          [] f = "apt_amount_in"  -> Str(<<"1", "0", "0", "0", "0", "0", "0", "0", "0">>)
          [] f = "shares_out"     -> Str(<<"2", "0", "0", "0", "0", "0", "0">>)
          [] f = "is_yes"         -> Bool(TRUE)]

BurnData ==
    [f \in {"market_address", "user", "shares_in", "apt_amount_out", "is_yes"} |->
        CASE f = "market_address" -> Str(MarketAddr)
          [] f = "user"           -> Str(UserAddr)
          [] f = "apt_amount_out" -> Str(<<"5", "0", "0", "0", "0", "0", "0", "0">>)
          [] f = "shares_in"      -> Str(<<"1", "0", "0", "0", "0", "0", "0">>)
          [] f = "is_yes"         -> Bool(FALSE)]

CreatedData ==
    [f \in {"market_address", "creator"} |->
        IF f = "market_address" THEN Str(MarketAddr) ELSE Str(UserAddr)]

ResolvedData ==
    [f \in {"market_address", "outcome"} |->
        IF f = "market_address" THEN Str(MarketAddr) ELSE Str(<<"Y", "E", "S">>)]

\* the same payload without the field f
Without(data, f) == [g \in DOMAIN data \ {f} |-> data[g]]

Event(name, data) == [Type |-> EventType(name), Data |-> data]

\* the same event under another fully-qualified type
Typed(type, event) == [event EXCEPT !.Type = type]

\* the same payload with field f set to x
With(data, f, x) == [g \in DOMAIN data |-> IF g = f THEN x ELSE data[g]]

ShapeEvents(shape) ==
    CASE shape = "mint"       -> <<Event("SharesMintedEvent", MintData)>>
      [] shape = "burn"       -> <<Event("SharesBurnedEvent", BurnData)>>
      [] shape = "failedMint" -> <<Event("SharesMintedEvent", MintData)>>
      [] shape = "sysMint"    -> <<Event("SharesMintedEvent", MintData)>>
      [] shape = "mintStr"    -> <<Event("SharesMintedEvent",
                                       With(MintData, "is_yes", Str(<<"t", "r", "u", "e">>)))>>
      [] shape = "pair"       -> <<Event("SharesMintedEvent", MintData),
                                   Event("MarketResolvedEvent", ResolvedData)>>
      [] shape = "resGhost"   -> <<Event("MarketResolvedEvent",
                                       With(ResolvedData, "market_address", Str(GhostMarket)))>>
      [] shape = "routing"    ->
           <<Typed(<<"0xother", "verifi_protocol", "SharesMintedEvent">>,
                   Event("SharesMintedEvent", MintData)),
             Event("FutureEvent", MintData),
             Typed(<<moduleAddress, "SharesMintedEvent">>, Event("SharesMintedEvent", MintData)),
             Event("MarketCreatedEvent", CreatedData)>>
      [] shape = "trades"     -> <<Event("SharesBurnedEvent", BurnData),
                                   Event("MarketResolvedEvent", ResolvedData),
                                   Event("SharesMintedEvent", MintData)>>
      [] shape = "mintNoMkt"  -> <<Event("SharesMintedEvent", Without(MintData, "market_address"))>>
      [] shape = "created"    -> <<Event("MarketCreatedEvent", CreatedData)>>
      [] shape = "resolved"   -> <<Event("MarketResolvedEvent", ResolvedData)>>
      [] shape = "resNoMkt"   -> <<Event("MarketResolvedEvent", Without(ResolvedData, "market_address"))>>
      [] OTHER                -> <<>>

Shapes == {"mint", "mintNoMkt", "resolved"}
OrderShapes == {"created", "resolved"}
CrashShapes == {"mint", "resolved"}
LoopShapes == {"mint", "failedMint", "sysMint"}
DispatchShapes == {"routing", "trades"}
NotifyShapes == {"burn", "mintNoMkt"}
HandlerShapes == {"mintStr", "pair", "resGhost"}

\* the events of every shape
EventsOf ==
    [shape \in Shapes \cup OrderShapes \cup CrashShapes \cup LoopShapes \cup DispatchShapes \cup HandlerShapes
              \cup NotifyShapes \cup {"resNoMkt"} |-> ShapeEvents(shape)]

\* TransactionEvent at version v
TxAt(v) ==
    IF v \in DOMAIN ledger
    THEN [Version |-> v, Hash |-> v,
          Success |-> ledger[v] # "failedMint",
          Type |-> IF ledger[v] = "sysMint" THEN "state_checkpoint_transaction"
                   ELSE "user_transaction",
          Events |-> EventsOf[ledger[v]]]
    ELSE [Version |-> v, Hash |-> v, Success |-> TRUE, Type |-> "block_metadata_transaction",
          Events |-> <<>>]

----------------------------------------------------------------------------
(* Ledger Client *)

\* GetLatestLedgerInfo: the status code is not inspected, so a non-2xx
\* answer with a JSON body decodes to an empty ledger_version and Sscanf
\* leaves version 0; a transport failure or an undecodable body is an error.
GetLatestLedgerInfo(resp) ==
    CASE resp = "ok"      -> [err |-> FALSE, version |-> tip]
      [] resp = "status"  -> [err |-> FALSE, version |-> 0]
      [] OTHER            -> [err |-> TRUE,  version |-> 0]

LedgerResponses == {"ok", "status", "neterr"}

\* the answer a request made with ctx gets: httpClient.Do fails once ctx is cancelled
Answer(resp) == IF ctx = "cancelled" THEN "neterr" ELSE resp

\* what the node may answer: 200 once it is healthy
NodeAnswers(resp) == net = "healthy" => resp = "ok"

\* the numbers of transactions a 200 answer to /transactions?start=&limit= may carry
ReturnedCounts(limit) == {limit} \cup {n \in {limit - 1} : n >= 0}

----------------------------------------------------------------------------
(* Handlers *)

GetString(data, f) ==
    IF f \in DOMAIN data /\ data[f].tag = "string" THEN data[f].s ELSE EmptyStr

\* (mutant) the string "true" taken for the boolean
GetBool_Truthy(data, f) ==
    /\ f \in DOMAIN data
    /\ \/ data[f].tag = "bool" /\ data[f].b
       \/ data[f].tag = "string" /\ data[f].s = <<"t", "r", "u", "e">>

\* `v, _ := data[f].(bool)`
GetBool(data, f) ==
    IF f \in DOMAIN data /\ data[f].tag = "bool" THEN data[f].b ELSE FALSE

\* s[:SliceLen] panics when s is shorter
SlicePanics(s) == Len(s) < SliceLen

NextId(act) == Cardinality(act) + 1

\* (mutant) the insert without its ON CONFLICT clause
InsertActivity_NoConflict(act, row) ==
    act \cup {[row EXCEPT !.id = NextId(act)]}

\* INSERT INTO "Activity" ... ON CONFLICT ("txHash") DO NOTHING
InsertActivity(act, row) ==
    IF \E r \in act : r.txHash = row.txHash
    THEN act
    ELSE act \cup {[row EXCEPT !.id = NextId(act)]}

\* (mutant) an upsert in place of the update
UpdateMarket_Upsert(mkt, addr) ==
    [m \in DOMAIN mkt \cup {addr} |-> IF m = addr THEN "resolved" ELSE mkt[m]]

\* UPDATE "Market" SET status = 'resolved' WHERE "marketAddress" = addr
UpdateMarket(mkt, addr) ==
    [m \in DOMAIN mkt |-> IF m = addr THEN "resolved" ELSE mkt[m]]

Outcome(isYes) == IF isYes THEN "YES" ELSE "NO"

ActivityRow(tx, marketAddress, user, action, isYes, shares, apt) ==
    [id |-> 0, txHash |-> tx.Hash, marketAddress |-> marketAddress,
     userAddress |-> user, action |-> action, outcome |-> Outcome(isYes),
     amount |-> [num |-> ParseFloat(shares), den |-> 1000000],
     totalValue |-> [num |-> ParseFloat(apt), den |-> 100000000]]

\* A handler's result: the tables after it, and how it ended:
\* "ok" (returned nil), "err" (returned an error), "panic".
Result(act, mkt, end) == [act |-> act, mkt |-> mkt, end |-> end]

handleSharesMinted(event, tx, act, mkt, execOk) ==
    LET marketAddress == GetString(event.Data, "market_address")
        user          == GetString(event.Data, "user")
        row == ActivityRow(tx, marketAddress, user, "BUY",
                           GetBool(event.Data, "is_yes"),
                           GetString(event.Data, "shares_out"),
                           GetString(event.Data, "apt_amount_in"))
    IN  IF ~execOk THEN Result(act, mkt, "err")
        ELSE IF SlicePanics(marketAddress) \/ SlicePanics(user)
             THEN Result(InsertActivity(act, row), mkt, "panic")
             ELSE Result(InsertActivity(act, row), mkt, "ok")

handleSharesBurned(event, tx, act, mkt, execOk) ==
    LET marketAddress == GetString(event.Data, "market_address")
        user          == GetString(event.Data, "user")
        row == ActivityRow(tx, marketAddress, user, "SELL",
                           GetBool(event.Data, "is_yes"),
                           GetString(event.Data, "shares_in"),
                           GetString(event.Data, "apt_amount_out"))
    IN  IF ~execOk THEN Result(act, mkt, "err")
        ELSE IF SlicePanics(marketAddress) \/ SlicePanics(user)
             THEN Result(InsertActivity(act, row), mkt, "panic")
             ELSE Result(InsertActivity(act, row), mkt, "ok")

\* (mutant) the creation is stored as an activity
handleMarketCreated_Insert(event, tx, act, mkt, execOk) ==
    Result(InsertActivity(act, ActivityRow(tx, GetString(event.Data, "market_address"),
                                           GetString(event.Data, "creator"), "CREATE",
                                           FALSE, <<"0">>, <<"0">>)),
           mkt, "ok")

\* no statement is executed: the fields are read and logged, the notifier is called
handleMarketCreated(event, tx, act, mkt, execOk) ==
    Result(act, mkt, "ok")

handleMarketResolved(event, tx, act, mkt, execOk) ==
    LET marketAddress == GetString(event.Data, "market_address")
    IN  IF SlicePanics(marketAddress) THEN Result(act, mkt, "panic")
        ELSE IF ~execOk THEN Result(act, mkt, "err")
        ELSE Result(act, UpdateMarket(mkt, marketAddress), "ok")

\* registerDefaultHandlers
eventHandlers ==
    {"SharesMintedEvent", "SharesBurnedEvent", "MarketCreatedEvent", "MarketResolvedEvent"}

Handler(name, event, tx, act, mkt, execOk) ==
    CASE name = "SharesMintedEvent"   -> handleSharesMinted(event, tx, act, mkt, execOk)
      [] name = "SharesBurnedEvent"   -> handleSharesBurned(event, tx, act, mkt, execOk)
      [] name = "MarketCreatedEvent"  -> handleMarketCreated(event, tx, act, mkt, execOk)
      [] OTHER                        -> handleMarketResolved(event, tx, act, mkt, execOk)

----------------------------------------------------------------------------
(* Notifier: WebhookClient.SendEvent and its call in the handlers *)

\* what happens to the POST: delivered with a 2xx, answered with another
\* status, failed in transport; "badurl" is a URL http.NewRequest rejects
WebhookAnswers == {"ok", "status", "neterr", "badurl"}

\* (mutant) a status outside 2xx is returned as an error
SendEvent_Strict(answer) == [err |-> answer \in {"badurl", "status"}]

\* SendEvent: an error only where the request cannot be built
SendEvent(answer) == [err |-> answer = "badurl"]

\* the handlers that end with `if l.webhookClient != nil { ... SendEvent ... }`
Notifies(name) == name \in {"SharesMintedEvent", "SharesBurnedEvent", "MarketCreatedEvent"}

\* (mutant) the error of SendEvent is returned
HandlerEnd_Propagating(name, end, hook) ==
    LET called == end = "ok" /\ Notifies(name) /\ hook # "none"
    IN  [end     |-> IF called /\ SendEvent(hook).err THEN "err" ELSE end,
         sent    |-> IF called THEN 1 ELSE 0,
         sendErr |-> called /\ SendEvent(hook).err]

\* How a handler whose persistence part ended with `end` returns, with
\* l.webhookClient nil (hook = "none") or its POST answered by hook: the
\* error of SendEvent is logged, `return nil` follows.
HandlerEnd(name, end, hook) ==
    LET called == end = "ok" /\ Notifies(name) /\ hook # "none"
    IN  [end     |-> end,
         sent    |-> IF called THEN 1 ELSE 0,
         sendErr |-> called /\ SendEvent(hook).err]

\* (mutant) `return err` in place of the log
AfterHandler_Abort(end, i, n) == IF end = "err" THEN n + 1 ELSE i + 1

\* the event loop after event i of n: the handler's error is logged, the loop goes on
AfterHandler(end, i, n) == i + 1

----------------------------------------------------------------------------
(* Dispatcher: one iteration of the event loop of processTx *)

\* strings.Contains(event.Type, moduleAddress), on the "::"-separated segments
ContainsModule(type) == \E i \in 1..Len(type) : type[i] = moduleAddress

\* (mutant) the test of the module address left out
HandlerFor_AnyModule(event) ==
    IF Len(event.Type) < 3 THEN ""
    ELSE IF event.Type[Len(event.Type)] \notin eventHandlers THEN ""
    ELSE event.Type[Len(event.Type)]

\* "" when the event is skipped, else the name whose handler runs
HandlerFor(event) ==
    IF ~ContainsModule(event.Type) THEN ""
    ELSE IF Len(event.Type) < 3 THEN ""
    ELSE IF event.Type[Len(event.Type)] \notin eventHandlers THEN ""
    ELSE event.Type[Len(event.Type)]

DispatchEvent(event, tx, act, mkt, execOk) ==
    IF HandlerFor(event) = "" THEN Result(act, mkt, "skip")
    ELSE Handler(HandlerFor(event), event, tx, act, mkt, execOk)

\* processTx returns at once for these
\* (mutant) the test of tx.Success left out
Skipped_TypeOnly(tx) == tx.Type # "user_transaction"

\* `if !tx.Success || tx.Type != "user_transaction" { return nil }`
Skipped(tx) == ~tx.Success \/ tx.Type # "user_transaction"

----------------------------------------------------------------------------
(* Progress store *)

\* (mutant) the migration overwrites the stored checkpoint
runMigrations_Reset(row) == FormatUint(0)

\* runMigrations: INSERT ... VALUES ('last_indexed_version', '0') ON CONFLICT DO NOTHING
runMigrations(row) == IF row = NoRow THEN FormatUint(0) ELSE row

\* saveLastVersion: upsert of the decimal string of lastVersion
saveLastVersion(v) == FormatUint(v)

\* (mutant) the loaded value is not kept
loadLastVersion_Dropped(row, dbOk) ==
    IF ~dbOk \/ row = NoRow THEN [err |-> TRUE, version |-> 0]
    ELSE [err |-> ~ParseUint(row).ok, version |-> 0]

\* loadLastVersion. dbOk is FALSE where the query fails.
loadLastVersion(row, dbOk) ==
    IF ~dbOk \/ row = NoRow THEN [err |-> TRUE, version |-> 0]
    ELSE [err |-> ~ParseUint(row).ok, version |-> ParseUint(row).v]

----------------------------------------------------------------------------
(* poll: the pieces of the batch loop *)

\* (mutant) the test for equality only
NoNewTransactions_Eq(latest, last) == latest = last

\* `if latestVersion <= l.lastVersion { return nil }`
NoNewTransactions(latest, last) == latest <= last

\* (mutant) the last batch not shortened
Limit_Full(s, e) == batchSize

\* limit of the request that starts at s and must not pass e
Limit(s, e) == IF s + batchSize > e THEN e - s + 1 ELSE batchSize

\* `start += limit`
NextStart(s, limit, fetched) == s + limit

\* (mutant) the batch walked from its end
VersionOf_Reversed(batch, i) == batch[1] + batch[2] - i

\* the version of element i of the fetched batch (the ledger answers in ascending order)
VersionOf(batch, i) == batch[1] + i - 1

\* (mutant) the assignment left out
AdvancedVersion_Stale(latest, last) == last

\* `l.lastVersion = latestVersion`
AdvancedVersion(latest, last) == latest

\* (mutant) the batches walked before the failure are committed
VersionAfterFetchErr_Partial(last, s) == s - 1

\* lastVersion after `return err` on a failed fetch at start s: untouched
VersionAfterFetchErr(last, s) == last

----------------------------------------------------------------------------
(* History *)

\* Sets of versions are kept as sets of disjoint, non-adjacent intervals <<lo, hi>>.
Within(ivs, v) == \E iv \in ivs : iv[1] <= v /\ v <= iv[2]

\* ivs with the versions lo..hi added
Noted(ivs, lo, hi) ==
    LET touch == {iv \in ivs : iv[1] <= hi + 1 /\ lo <= iv[2] + 1}
        los   == {iv[1] : iv \in touch} \cup {lo}
        his   == {iv[2] : iv \in touch} \cup {hi}
    IN  (ivs \ touch) \cup
        {<<CHOOSE x \in los : \A y \in los : x <= y,
           CHOOSE x \in his : \A y \in his : x >= y>>}

\* the versions of lo..hi that are not in ivs
Gaps(ivs, lo, hi) == {v \in lo..hi : ~Within(ivs, v)}

\* What is remembered, until the first tick that runs to its end, of the
\* previous run of the process when it ended inside
\* a tick: `at` where it ended, `low` its c0, (`base`, `end`] the range of the tick it was in,
\* `holes` the versions up to `base` it walked without passing them to
\* processTx, `stored` the stored checkpoint when it ended.
NoPrev == [intick |-> FALSE, at |-> "", low |-> 0, base |-> 0, end |-> 0, holes |-> {},
           stored |-> NoRow]

NoCall == [version |-> 0, name |-> "", end |-> "", answer |-> "", sent |-> 0,
           sendErr |-> FALSE]

Hist0 == [c0         |-> 0,      \* lastVersion when the polling loop was entered
          loaded     |-> FALSE,  \* that value was loaded from sync_state
          dispatched |-> {},     \* versions passed to processTx since then
          tickBase   |-> 0,      \* lastVersion at the start of the current tick
          tickMax    |-> 0,      \* greatest version passed to processTx in the current tick
          handled    |-> <<>>,   \* <<version, event name>> of the handlers run in the current tick
          last       |-> NoCall, \* the last handler run (kept where the notifier is configured)
          retryFrom  |-> 0,      \* start of the first fetch of the last tick a fetch failure aborted
          requests   |-> <<>>,   \* <<start, limit>> of the range requests answered in the current tick
          prev       |-> NoPrev, \* the previous run of the process
          clean      |-> TRUE]   \* so far every start loaded the checkpoint

\* the history kept when the process goes down
Ended(h, intick) ==
    [Hist0 EXCEPT
       !.clean = h.clean,
       !.prev  = IF intick /\ env.track
                 THEN [intick |-> TRUE, at |-> pc, low |-> h.c0, base |-> h.tickBase,
                       end |-> latestVersion,
                       holes |-> Gaps(h.dispatched, h.c0 + 1, h.tickBase),
                       stored |-> sync_state]
                 ELSE NoPrev]

\* the history of a process that enters the polling loop at version v
Begun(h, v, loaded) ==
    [Hist0 EXCEPT !.c0 = v, !.loaded = loaded,
                  !.prev = IF loaded THEN h.prev ELSE NoPrev,
                  !.clean = h.clean /\ (env.track => loaded)]

NoLocals ==
    /\ latestVersion' = 0
    /\ start' = 0
    /\ txs' = <<0, 0>>
    /\ txIdx' = 0
    /\ evIdx' = 0

UnchangedDb == UNCHANGED <<sync_state, Activity, Market>>
UnchangedBuffer == UNCHANGED <<globalBuffer, bufmu, bufcall, bufhist>>
UnchangedService == UNCHANGED <<stats, statsmu, run, runhist>>
UnchangedRotator ==
    /\ UNCHANGED <<rotator, mu, now, call, rhist>>
    /\ UnchangedBuffer
    /\ UnchangedService
UnchangedLedger == UNCHANGED <<tip, ledger, env, net>> /\ UnchangedRotator
UnchangedCtx == UNCHANGED ctx

----------------------------------------------------------------------------
(* The ledger grows *)

Strides == {1, batchSize}

\* The program reads the ledger only in GetLatestLedgerInfo and, for versions
\* up to latestVersion, in the range fetch, and committed versions never
\* change: a commit during a tick is indistinguishable from one right after
\* it, so commits are taken between ticks.
Commit(gap, shape) ==
    /\ pc \notin {"fetch", "process", "advance", "save"}
    /\ gap \in env.strides
    /\ tip + gap <= MaxTip
    /\ Cardinality(DOMAIN ledger) < MaxTxs
    /\ tip' = tip + gap
    /\ ledger' = [v \in DOMAIN ledger \cup {tip + gap} |->
                    IF v = tip + gap THEN shape ELSE ledger[v]]
    /\ UNCHANGED <<sync_state, Activity, Market, pc, lastVersion,
                   latestVersion, start, txs, txIdx, evIdx, hist, env, ticker, polls, ctx,
                   net>>
    /\ UnchangedRotator

----------------------------------------------------------------------------
(* Process lifecycle: main and EventListener.Start *)

Running == pc \in {"idle", "fetch", "process", "advance", "save"}

\* main: runMigrations; Start: loadLastVersion succeeds
StartLoaded ==
    /\ pc \in {"down", "panicked"}
    /\ LET row == runMigrations(sync_state)
           ld  == loadLastVersion(row, TRUE)
       IN  /\ ~ld.err
           /\ sync_state' = row
           /\ lastVersion' = ld.version
           /\ hist' = Begun(hist, ld.version, TRUE)
    /\ pc' = "idle"
    /\ NoLocals
    /\ ticker' = 0
    /\ polls' = 0
    /\ UNCHANGED <<Activity, Market>>
    /\ UnchangedLedger
    /\ ctx' = "live"

\* Start: loadLastVersion fails, start from the latest version
StartFromLatest(resp) ==
    /\ pc \in {"down", "panicked"}
    /\ NodeAnswers(resp)
    /\ LET row == runMigrations(sync_state)
           ld  == loadLastVersion(row, FALSE)
           li  == GetLatestLedgerInfo(resp)
       IN  /\ ld.err
           /\ sync_state' = row
           /\ ~li.err
           /\ lastVersion' = li.version
           /\ hist' = Begun(hist, li.version, FALSE)
    /\ pc' = "idle"
    /\ NoLocals
    /\ ticker' = 0
    /\ polls' = 0
    /\ UNCHANGED <<Activity, Market>>
    /\ UnchangedLedger
    /\ ctx' = "live"

\* Start: loadLastVersion fails and so does GetLatestLedgerInfo: Start returns the error
StartFails(resp) ==
    /\ pc \in {"down", "panicked"}
    /\ NodeAnswers(resp)
    /\ LET row == runMigrations(sync_state)
       IN  /\ loadLastVersion(row, FALSE).err
           /\ GetLatestLedgerInfo(resp).err
           /\ sync_state' = row
    /\ pc' = "stopped"
    /\ lastVersion' = 0
    /\ hist' = Begun(hist, 0, FALSE)
    /\ NoLocals
    /\ ticker' = 0
    /\ polls' = 0
    /\ UNCHANGED <<Activity, Market>>
    /\ UnchangedLedger
    /\ ctx' = "live"

\* the process is killed (crash, power loss, deploy): memory is lost
Kill ==
    /\ Running \/ pc = "stopped"
    /\ pc' = "down"
    /\ lastVersion' = 0
    /\ NoLocals
    /\ hist' = Ended(hist, pc \in {"fetch", "process", "advance", "save"})
    /\ ticker' = 0
    /\ polls' = 0
    /\ UnchangedDb
    /\ UnchangedLedger
    /\ ctx' = "live"

\* (mutant) the tick handler started with `go`: the loop is back at its
\* select while the pass runs
AtSelect_Go(p) == p \in {"idle", "fetch", "process", "advance", "save"}

\* the loop of Start is at its select: the call of poll has returned
AtSelect(p) == p = "idle"

\* `case <-ticker.C`: a tick is buffered (where the scenario leaves the timer
\* out, a tick is ready whenever the loop looks)
TickReady == env.timer => ticker = 1

\* the ticker fires: ticker.C holds one tick, a tick that finds it full is dropped
TimerFires ==
    /\ env.timer
    /\ Running
    /\ ticker' = 1
    /\ UNCHANGED <<pc, lastVersion, latestVersion, start, txs, txIdx, evIdx, hist, polls>>
    /\ UnchangedDb
    /\ UnchangedLedger
    /\ UnchangedCtx

\* the ledger node recovers: from here on every call is answered with 200
Heal ==
    /\ net = "flaky"
    /\ net' = "healthy"
    /\ UNCHANGED <<tip, ledger, env, pc, lastVersion, latestVersion, start, txs, txIdx,
                   evIdx, hist, ticker, polls, ctx>>
    /\ UnchangedDb
    /\ UnchangedRotator

\* main: `cancel()` on SIGINT or SIGTERM
Cancel ==
    /\ env.cancel
    /\ Running
    /\ ctx = "live"
    /\ ctx' = "cancelled"
    /\ UNCHANGED <<pc, lastVersion, latestVersion, start, txs, txIdx, evIdx, hist,
                   ticker, polls>>
    /\ UnchangedDb
    /\ UnchangedLedger

\* Start: `case <-ctx.Done(): return nil`. When a tick is buffered too, the
\* select may take either case.
Exit ==
    /\ AtSelect(pc)
    /\ ctx = "cancelled"
    /\ pc' = "stopped"
    /\ UNCHANGED <<lastVersion, latestVersion, start, txs, txIdx, evIdx, hist,
                   ticker, polls>>
    /\ UnchangedDb
    /\ UnchangedLedger
    /\ UnchangedCtx

----------------------------------------------------------------------------
(* poll *)

\* GetLatestLedgerInfo fails: poll returns the error
TickLedgerErr(resp) ==
    /\ AtSelect(pc)
    /\ TickReady
    /\ NodeAnswers(resp)
    /\ GetLatestLedgerInfo(Answer(resp)).err
    /\ ticker' = 0
    /\ UNCHANGED <<pc, lastVersion, latestVersion, start, txs, txIdx, evIdx, hist, polls>>
    /\ UnchangedDb
    /\ UnchangedLedger
    /\ UnchangedCtx

\* nothing new
TickNoNew(resp) ==
    /\ AtSelect(pc)
    /\ TickReady
    /\ NodeAnswers(resp)
    /\ LET li == GetLatestLedgerInfo(Answer(resp))
       IN  /\ ~li.err
           /\ NoNewTransactions(li.version, lastVersion)
    /\ ticker' = 0
    /\ UNCHANGED <<pc, lastVersion, latestVersion, start, txs, txIdx, evIdx, hist, polls>>
    /\ UnchangedDb
    /\ UnchangedLedger
    /\ UnchangedCtx

\* a range to walk
TickBegin(resp) ==
    /\ AtSelect(pc)
    /\ TickReady
    /\ NodeAnswers(resp)
    /\ ticker' = 0
    /\ polls' = polls + 1
    /\ LET li == GetLatestLedgerInfo(Answer(resp))
       IN  /\ ~li.err
           /\ ~NoNewTransactions(li.version, lastVersion)
           /\ latestVersion' = li.version
    /\ start' = lastVersion + 1
    /\ pc' = IF start' <= latestVersion' THEN "fetch" ELSE "advance"
    /\ hist' = [hist EXCEPT !.tickBase = lastVersion, !.tickMax = 0, !.handled = <<>>,
                             !.retryFrom = 0, !.requests = <<>>]
    /\ UNCHANGED <<txs, txIdx, evIdx, lastVersion>>
    /\ UnchangedDb
    /\ UnchangedLedger
    /\ UnchangedCtx

\* GetTransactionsByVersionRange fails: poll returns the error
FetchErr ==
    /\ pc = "fetch"
    /\ net = "flaky" \/ ctx = "cancelled"
    /\ pc' = "idle"
    /\ NoLocals
    /\ hist' = [hist EXCEPT !.retryFrom = hist.tickBase + 1, !.requests = <<>>]
    /\ polls' = polls - 1
    /\ UNCHANGED ticker
    /\ lastVersion' = VersionAfterFetchErr(lastVersion, start)
    /\ UnchangedDb
    /\ UnchangedLedger
    /\ UnchangedCtx

\* GetTransactionsByVersionRange answers with n transactions
FetchOk(n) ==
    /\ pc = "fetch"
    /\ n \in ReturnedCounts(Limit(start, latestVersion))
    /\ env.short \/ n = Limit(start, latestVersion)
    /\ ctx = "live"
    /\ txs' = <<start, n>>
    /\ txIdx' = 1
    /\ evIdx' = 1
    /\ pc' = "process"
    /\ hist' = [hist EXCEPT !.requests = Append(@, <<start, Limit(start, latestVersion)>>)]
    /\ UNCHANGED <<ticker, polls>>
    /\ UNCHANGED <<lastVersion, latestVersion, start>>
    /\ UnchangedDb
    /\ UnchangedLedger
    /\ UnchangedCtx

\* the outcomes of a database statement run with ctx: it fails once ctx is
\* cancelled; otherwise it fails only where the scenario has faults
ExecAnswers(execOk) ==
    /\ ctx = "cancelled" => ~execOk
    /\ (ctx = "live" /\ ~env.faults) => execOk

CurTx == TxAt(VersionOf(txs, txIdx))

Entered(h, tx) ==
    [h EXCEPT !.dispatched = Noted(@, tx.Version, tx.Version),
              !.tickMax = IF tx.Version > @ THEN tx.Version ELSE @]

\* the last index of the run of skipped transactions that starts at index i of the batch
RunEnd(batch, i) ==
    LET stops == {v \in DOMAIN ledger :
                    /\ v >= VersionOf(batch, i)
                    /\ v <= VersionOf(batch, batch[2])
                    /\ ~Skipped(TxAt(v))}
    IN  IF stops = {} THEN batch[2]
        ELSE (CHOOSE v \in stops : \A w \in stops : v <= w) - batch[1]

\* processTx is called on each transaction of a run of transactions it skips
\* (not successful, or not user transactions) and returns at once. Only the
\* loop index changes on the way, so the run is one step: a kill inside it
\* leaves what a kill at one of its ends leaves.
ProcessSkipped ==
    /\ pc = "process"
    /\ txIdx <= txs[2]
    /\ Skipped(CurTx)
    /\ LET j == RunEnd(txs, txIdx)
       IN  /\ txIdx' = j + 1
           /\ hist' = [hist EXCEPT
                         !.dispatched = Noted(@, VersionOf(txs, txIdx), VersionOf(txs, j)),
                         !.tickMax = IF VersionOf(txs, j) > @ THEN VersionOf(txs, j) ELSE @]
    /\ evIdx' = 1
    /\ UNCHANGED <<pc, lastVersion, latestVersion, start, txs, ticker, polls>>
    /\ UnchangedDb
    /\ UnchangedLedger
    /\ UnchangedCtx

\* processTx returns: the events of the transaction are exhausted
ProcessTxReturn ==
    /\ pc = "process"
    /\ txIdx <= txs[2]
    /\ ~Skipped(CurTx)
    /\ evIdx > Len(CurTx.Events)
    /\ txIdx' = txIdx + 1
    /\ evIdx' = 1
    /\ hist' = [Entered(hist, CurTx) EXCEPT !.last = NoCall]
    /\ UNCHANGED <<pc, lastVersion, latestVersion, start, txs, ticker, polls>>
    /\ UnchangedDb
    /\ UnchangedLedger
    /\ UnchangedCtx

\* processTx: one iteration of the event loop; execOk is FALSE where the
\* handler's database statement fails
ProcessEvent(execOk, hook) ==
    /\ pc = "process"
    /\ txIdx <= txs[2]
    /\ ~Skipped(CurTx)
    /\ evIdx <= Len(CurTx.Events)
    /\ ExecAnswers(execOk)
    /\ hook \in (IF env.webhook THEN WebhookAnswers ELSE {"none"})
    /\ LET event == CurTx.Events[evIdx]
           r     == DispatchEvent(event, CurTx, Activity, Market, execOk)
           e     == HandlerEnd(HandlerFor(event), r.end, hook)
       IN  /\ Activity' = r.act
           /\ Market' = r.mkt
           /\ IF r.end = "panic"
              THEN /\ pc' = "panicked"
                   /\ lastVersion' = 0
                   /\ NoLocals
                   /\ hist' = Ended(hist, TRUE)
                   /\ ticker' = 0
                   /\ polls' = 0
              ELSE /\ evIdx' = AfterHandler(e.end, evIdx, Len(CurTx.Events))
                   /\ hist' = [Entered(hist, CurTx) EXCEPT
                                 !.handled = IF r.end = "skip" THEN @
                                             ELSE Append(@, <<CurTx.Version, HandlerFor(event)>>),
                                 !.last = IF r.end = "skip" \/ ~env.last THEN @
                                          ELSE [version |-> CurTx.Version,
                                                name |-> HandlerFor(event), end |-> e.end,
                                                answer |-> IF e.sent = 1 THEN hook ELSE "",
                                                sent |-> e.sent, sendErr |-> e.sendErr]]
                   /\ UNCHANGED <<pc, lastVersion, latestVersion, start, txs, txIdx,
                                  ticker, polls>>
    /\ UNCHANGED sync_state
    /\ UnchangedLedger
    /\ UnchangedCtx

\* the batch is exhausted: `start += limit`, then the loop test
EndBatch ==
    /\ pc = "process"
    /\ txIdx > txs[2]
    /\ start' = NextStart(start, Limit(start, latestVersion), txs[2])
    /\ pc' = IF start' <= latestVersion THEN "fetch" ELSE "advance"
    /\ txs' = <<0, 0>>
    /\ txIdx' = 0
    /\ evIdx' = 0
    /\ UNCHANGED <<lastVersion, latestVersion, hist, ticker, polls>>
    /\ UnchangedDb
    /\ UnchangedLedger
    /\ UnchangedCtx

\* `l.lastVersion = latestVersion`
AdvanceCheckpoint ==
    /\ pc = "advance"
    /\ lastVersion' = AdvancedVersion(latestVersion, lastVersion)
    /\ pc' = "save"
    /\ UNCHANGED <<latestVersion, start, txs, txIdx, evIdx, hist, ticker, polls>>
    /\ UnchangedDb
    /\ UnchangedLedger
    /\ UnchangedCtx

\* (mutant) a failed save takes lastVersion back to where the tick began
VersionAfterSave_Rollback(version, base, execOk) == IF execOk THEN version ELSE base

\* lastVersion after saveLastVersion returned: no branch assigns it
VersionAfterSave(version, base, execOk) == version

\* saveLastVersion; when it fails the error is logged and poll returns nil
Save(execOk) ==
    /\ pc = "save"
    /\ ctx = "cancelled" => ~execOk
    /\ sync_state' = IF execOk THEN saveLastVersion(lastVersion) ELSE sync_state
    /\ lastVersion' = VersionAfterSave(lastVersion, hist.tickBase, execOk)
    /\ pc' = "idle"
    /\ NoLocals
    /\ hist' = [hist EXCEPT !.prev = NoPrev, !.requests = <<>>]
    /\ polls' = polls - 1
    /\ UNCHANGED <<Activity, Market, ticker>>
    /\ UnchangedLedger
    /\ UnchangedCtx

----------------------------------------------------------------------------
(* API key rotator: APIKeyRotator *)

\* `minDelay: 100 * time.Millisecond`
minDelay == 100

Callers == 1..MaxCallers

AptosKeyNames == <<"a1", "a2", "a3", "a4">>
NoditKeyNames == <<"n1", "n2", "n3", "n4">>

\* the pools the configuration may hold
AptosPools == {SubSeq(AptosKeyNames, 1, n) : n \in 0..MaxKeys}
NoditPools == {SubSeq(NoditKeyNames, 1, n) : n \in {0, MaxKeys}}

NewAPIKeyRotator(aptosKeys, noditKeys) ==
    [aptosKeys |-> aptosKeys, noditKeys |-> noditKeys, currentIdx |-> 0,
     lastUsed |-> [k \in {} |-> 0]]

\* `keys[r.currentIdx%len(keys)]`
KeyAt(keys, idx) == keys[(idx % Len(keys)) + 1]

\* (mutant) the wait left out
SleepFor_None(r, key, t) == 0

\* `if lastTime, exists := r.lastUsed[key]; exists { elapsed := time.Since(lastTime);
\*  if elapsed < r.minDelay { time.Sleep(r.minDelay - elapsed) } }`: the time to sleep at time t
SleepFor(r, key, t) ==
    IF key \in DOMAIN r.lastUsed /\ t - r.lastUsed[key] < minDelay
    THEN minDelay - (t - r.lastUsed[key])
    ELSE 0

\* `r.lastUsed[key] = time.Now()`
Used(m, key, t) == [k \in DOMAIN m \cup {key} |-> IF k = key THEN t ELSE m[k]]

\* GetNextAptosKey from `r.lastUsed[key] = time.Now()` on: the rotator it leaves
GetNextAptosKey(r, key, t) ==
    [r EXCEPT !.lastUsed = Used(@, key, t), !.currentIdx = @ + 1]

\* (mutant) the Nodit acquisition advances the cursor too
GetNextNoditKey_Counting(r, key, t) ==
    [r EXCEPT !.lastUsed = Used(@, key, t), !.currentIdx = @ + 1]

\* GetNextNoditKey from `r.lastUsed[key] = time.Now()` on: currentIdx is not incremented
GetNextNoditKey(r, key, t) ==
    [r EXCEPT !.lastUsed = Used(@, key, t)]

\* the pool an acquisition reads
PoolOf(r, op) == IF op = "aptos" THEN r.aptosKeys ELSE r.noditKeys

\* (mutant) the test for the empty pool left out
EmptyPool_Never(keys) == FALSE

\* `if len(r.aptosKeys) == 0 { return "" }`
EmptyPool(keys) == Len(keys) = 0

\* (mutant) the statistics count the call as a rotation
GetStats_Counting(r) ==
    [ret |-> [aptos_keys_count |-> Len(r.aptosKeys), nodit_keys_count |-> Len(r.noditKeys),
              total_rotations |-> r.currentIdx,
              last_used_count |-> Cardinality(DOMAIN r.lastUsed)],
     r   |-> [r EXCEPT !.currentIdx = @ + 1]]

\* GetStats: the map it returns and the rotator it leaves
GetStats(r) ==
    [ret |-> [aptos_keys_count |-> Len(r.aptosKeys), nodit_keys_count |-> Len(r.noditKeys),
              total_rotations |-> r.currentIdx,
              last_used_count |-> Cardinality(DOMAIN r.lastUsed)],
     r   |-> r]

\* (mutant) no mutual exclusion
LockFree_NoMutex(m) == TRUE

\* r.mu.Lock() returns when no caller holds the mutex
LockFree(m) == m = 0

Frame0 == [pc |-> "idle", op |-> "", key |-> "", idx |-> 0, wake |-> 0]

Ops == {"aptos", "nodit", "stats"}

\* calls that have not yet returned
InFlight == Cardinality({c \in Callers : call[c].pc # "idle"})

UnchangedListener ==
    /\ UNCHANGED <<tip, ledger, sync_state, Activity, Market, pc, lastVersion, latestVersion,
                   start, txs, txIdx, evIdx, hist, env, ticker, polls, ctx, net>>
    /\ UNCHANGED <<globalBuffer, bufmu, bufcall, bufhist>>
    /\ UNCHANGED <<stats, statsmu, run, runhist>>

\* the history entry of a call that returns: the method ("stats" for
\* GetStats), the key, the time, the cursor it read, and whether another
\* call was in flight
Returned(op, key, idx) ==
    Append(rhist, [pool |-> op, key |-> key, at |-> now, idx |-> idx, conc |-> InFlight > 1])

\* a goroutine calls GetNextAptosKey, GetNextNoditKey or GetStats
Invoke(c, op) ==
    /\ call[c].pc = "idle"
    /\ Len(rhist) + InFlight < MaxCalls
    /\ call' = [call EXCEPT ![c] = [Frame0 EXCEPT !.pc = "lock", !.op = op]]
    /\ UNCHANGED <<rotator, mu, now, rhist>>
    /\ UnchangedListener

\* `r.mu.Lock()`
Lock(c) ==
    /\ call[c].pc = "lock"
    /\ LockFree(mu)
    /\ mu' = c
    /\ call' = [call EXCEPT ![c].pc = "locked"]
    /\ UNCHANGED <<rotator, now, rhist>>
    /\ UnchangedListener

\* the empty pool: `return ""` (the deferred Unlock runs)
ReturnEmpty(c) ==
    /\ call[c].pc = "locked"
    /\ call[c].op \in {"aptos", "nodit"}
    /\ EmptyPool(PoolOf(rotator, call[c].op))
    /\ mu' = 0
    /\ call' = [call EXCEPT ![c] = Frame0]
    /\ rhist' = Returned(call[c].op, "", rotator.currentIdx)
    /\ UNCHANGED <<rotator, now>>
    /\ UnchangedListener

\* the key is chosen; the caller sleeps, holding the mutex, if the key was used too recently
Select(c) ==
    /\ call[c].pc = "locked"
    /\ call[c].op \in {"aptos", "nodit"}
    /\ ~EmptyPool(PoolOf(rotator, call[c].op))
    /\ IF Len(PoolOf(rotator, call[c].op)) = 0
       THEN \* `r.currentIdx % 0`: integer divide by zero, the goroutine panics
            /\ call' = [call EXCEPT ![c].pc = "panicked"]
            /\ mu' = 0
       ELSE LET key == KeyAt(PoolOf(rotator, call[c].op), rotator.currentIdx)
                d   == SleepFor(rotator, key, now)
            IN  /\ call' = [call EXCEPT ![c].key = key, ![c].idx = rotator.currentIdx,
                                        ![c].wake = now + d,
                                        ![c].pc = IF d > 0 THEN "sleep" ELSE "record"]
                /\ UNCHANGED mu
    /\ UNCHANGED <<rotator, now, rhist>>
    /\ UnchangedListener

\* time.Sleep returns, not before the duration has passed
Wake(c) ==
    /\ call[c].pc = "sleep"
    /\ now >= call[c].wake
    /\ call' = [call EXCEPT ![c].pc = "record"]
    /\ UNCHANGED <<rotator, mu, now, rhist>>
    /\ UnchangedListener

\* the time of use is recorded, the cursor advanced (Aptos pool), the key returned
Record(c) ==
    /\ call[c].pc = "record"
    /\ rotator' = IF call[c].op = "aptos"
                  THEN GetNextAptosKey(rotator, call[c].key, now)
                  ELSE GetNextNoditKey(rotator, call[c].key, now)
    /\ mu' = 0
    /\ call' = [call EXCEPT ![c] = Frame0]
    /\ rhist' = Returned(call[c].op, call[c].key, call[c].idx)
    /\ UNCHANGED now
    /\ UnchangedListener

\* GetStats, under the mutex
Stats(c) ==
    /\ call[c].pc = "locked"
    /\ call[c].op = "stats"
    /\ rotator' = GetStats(rotator).r
    /\ mu' = 0
    /\ call' = [call EXCEPT ![c] = Frame0]
    /\ rhist' = Returned("stats", "", GetStats(rotator).ret.total_rotations)
    /\ UNCHANGED now
    /\ UnchangedListener

\* time passes: just under minDelay, or minDelay
Delays == {minDelay - 1, minDelay}

AdvanceTime(d) ==
    /\ now + d <= MaxNow
    /\ now' = now + d
    /\ UNCHANGED <<rotator, mu, call, rhist>>
    /\ UnchangedListener

NextRotator ==
    \/ \E c \in Callers : \E op \in Ops : Invoke(c, op)
    \/ \E c \in Callers : Lock(c)
    \/ \E c \in Callers : ReturnEmpty(c)
    \/ \E c \in Callers : Select(c)
    \/ \E c \in Callers : Wake(c)
    \/ \E c \in Callers : Record(c)
    \/ \E c \in Callers : Stats(c)
    \/ \E d \in Delays : AdvanceTime(d)

----------------------------------------------------------------------------
(* Log buffer: package logbuffer *)

BufCallers == 1..MaxCallers

\* the limits GetRecent is called with
Limits == (0 - 1)..(MaxSize + 1)

\* `globalBuffer = &Buffer{entries: make([]LogEntry, 0, maxSize), maxSize: maxSize}`
BufferInit(maxSize) == [entries |-> <<>>, maxSize |-> maxSize]

\* the entry of the n-th call of Add
LogEntry(n) == [Message |-> n]

\* the zero LogEntry
ZeroEntry == [Message |-> 0]

\* (mutant) the oldest entry is kept
Trim_None(entries, maxSize) == entries

\* `if len(entries) > maxSize { entries = entries[1:] }`
Trim(entries, maxSize) ==
    IF Len(entries) > maxSize THEN SubSeq(entries, 2, Len(entries)) ELSE entries

\* GetRecent from `if limit <= 0 || limit > len(...)` on: the slice it returns
GetRecent(entries, limit) ==
    LET n      == Len(entries)
        lim    == IF limit <= 0 \/ limit > n THEN n ELSE limit
        start0 == n - lim
        first  == IF start0 < 0 THEN 0 ELSE start0
    IN  [k \in 1..lim |-> IF k <= n - first THEN entries[first + k] ELSE ZeroEntry]

\* mu.Lock() returns when no writer and no reader holds the mutex
WLockFree(m) == m.w = 0 /\ m.r = {}

\* mu.RLock() returns when no writer holds the mutex
RLockFree(m) == m.w = 0

BufFrame0 == [pc |-> "idle", op |-> "", limit |-> 0]

NoResult == [limit |-> 0, ret |-> <<>>, held |-> <<>>, added |-> 0, cleared |-> 0, calls |-> 0]

\* calls of the package that have not yet returned
BufInFlight == Cardinality({c \in BufCallers : bufcall[c].pc # "idle"})

UnchangedIndexer ==
    UNCHANGED <<tip, ledger, sync_state, Activity, Market, pc, lastVersion, latestVersion,
                start, txs, txIdx, evIdx, hist, env, ticker, polls, ctx, net,
                rotator, mu, now, call, rhist>>

\* a goroutine calls Add, GetRecent(limit) or Clear
BufInvoke(c, op, limit) ==
    /\ bufcall[c].pc = "idle"
    /\ bufhist.returned + BufInFlight < MaxOps
    /\ op = "get" \/ limit = 0
    /\ bufcall' = [bufcall EXCEPT ![c] = [pc |-> IF op = "get" THEN "rlock" ELSE "lock",
                                           op |-> op, limit |-> limit]]
    /\ UNCHANGED <<globalBuffer, bufmu, bufhist>>
    /\ UnchangedIndexer
    /\ UnchangedService

\* Add, Clear: `globalBuffer.mu.Lock()`
BufLock(c) ==
    /\ bufcall[c].pc = "lock"
    /\ WLockFree(bufmu)
    /\ bufmu' = [bufmu EXCEPT !.w = c]
    /\ bufcall' = [bufcall EXCEPT ![c].pc = IF bufcall[c].op = "add" THEN "append" ELSE "clear"]
    /\ UNCHANGED <<globalBuffer, bufhist>>
    /\ UnchangedIndexer
    /\ UnchangedService

\* GetRecent: `globalBuffer.mu.RLock()`
BufRLock(c) ==
    /\ bufcall[c].pc = "rlock"
    /\ RLockFree(bufmu)
    /\ bufmu' = [bufmu EXCEPT !.r = @ \cup {c}]
    /\ bufcall' = [bufcall EXCEPT ![c].pc = "read"]
    /\ UNCHANGED <<globalBuffer, bufhist>>
    /\ UnchangedIndexer
    /\ UnchangedService

\* Add: `globalBuffer.entries = append(globalBuffer.entries, entry)`
AddAppend(c) ==
    /\ bufcall[c].pc = "append"
    /\ globalBuffer' = [globalBuffer EXCEPT !.entries = Append(@, LogEntry(bufhist.added + 1))]
    /\ bufhist' = [bufhist EXCEPT !.added = @ + 1]
    /\ bufcall' = [bufcall EXCEPT ![c].pc = "trim"]
    /\ UNCHANGED bufmu
    /\ UnchangedIndexer
    /\ UnchangedService

\* Add: the oldest entry is dropped when the buffer is over maxSize; the
\* deferred Unlock runs
AddTrim(c) ==
    /\ bufcall[c].pc = "trim"
    /\ globalBuffer' = [globalBuffer EXCEPT !.entries = Trim(@, globalBuffer.maxSize)]
    /\ bufmu' = [bufmu EXCEPT !.w = 0]
    /\ bufcall' = [bufcall EXCEPT ![c] = BufFrame0]
    /\ bufhist' = [bufhist EXCEPT !.returned = @ + 1]
    /\ UnchangedIndexer
    /\ UnchangedService

\* GetRecent, under the read lock, to its return
GetRecentReturn(c) ==
    /\ bufcall[c].pc = "read"
    /\ bufhist' = [bufhist EXCEPT
                     !.returned = @ + 1,
                     !.last = [limit |-> bufcall[c].limit,
                               ret |-> GetRecent(globalBuffer.entries, bufcall[c].limit),
                               held |-> globalBuffer.entries,
                               added |-> bufhist.added, cleared |-> bufhist.cleared,
                               calls |-> bufhist.returned + 1]]
    /\ bufmu' = [bufmu EXCEPT !.r = @ \ {c}]
    /\ bufcall' = [bufcall EXCEPT ![c] = BufFrame0]
    /\ UNCHANGED globalBuffer
    /\ UnchangedIndexer
    /\ UnchangedService

\* Clear, under the lock, to its return
ClearReturn(c) ==
    /\ bufcall[c].pc = "clear"
    /\ globalBuffer' = [globalBuffer EXCEPT !.entries = <<>>]
    /\ bufhist' = [bufhist EXCEPT !.returned = @ + 1, !.cleared = bufhist.added]
    /\ bufmu' = [bufmu EXCEPT !.w = 0]
    /\ bufcall' = [bufcall EXCEPT ![c] = BufFrame0]
    /\ UnchangedIndexer
    /\ UnchangedService

NextBuffer ==
    \/ \E c \in BufCallers : \E op \in {"add", "get", "clear"} : \E limit \in Limits :
          BufInvoke(c, op, limit)
    \/ \E c \in BufCallers : BufLock(c)
    \/ \E c \in BufCallers : BufRLock(c)
    \/ \E c \in BufCallers : AddAppend(c)
    \/ \E c \in BufCallers : AddTrim(c)
    \/ \E c \in BufCallers : GetRecentReturn(c)
    \/ \E c \in BufCallers : ClearReturn(c)

InitBuffer(maxSize) ==
    /\ globalBuffer = BufferInit(maxSize)
    /\ bufmu = [w |-> 0, r |-> {}]
    /\ bufcall = [c \in BufCallers |-> BufFrame0]
    /\ bufhist = [added |-> 0, cleared |-> 0, returned |-> 0, last |-> NoResult]

----------------------------------------------------------------------------
(* Sync service: Service.SyncMetrics and its counters *)

SyncCallers == 1..MaxCallers

ShortAddr == <<"0", "x", "1">>

\* the rows the query for the active markets may return
MarketLists == {<<>>, <<MarketAddr>>, <<MarketAddr, OtherMarket>>, <<ShortAddr>>}

\* `stats: &Stats{}`
NewService == [MetricsSyncCount |-> 0, Errors |-> 0]

RunFrame0 == [pc |-> "idle", markets |-> <<>>, i |-> 0, tmp |-> 0, lastErr |-> FALSE]

\* calls of SyncMetrics started so far
Started ==
    runhist.ok + runhist.failed + Cardinality({c \in SyncCallers : run[c].pc # "idle"})

\* s.mu.Lock() returns when no caller holds the mutex
StatsLockFree(m) == m = 0

\* the cron job, the POST /sync/metrics handler or main calls SyncMetrics
SyncMetrics(c) ==
    /\ run[c].pc = "idle"
    /\ Started < MaxRuns
    /\ run' = [run EXCEPT ![c] = [RunFrame0 EXCEPT !.pc = "query"]]
    /\ UNCHANGED <<stats, statsmu, runhist>>
    /\ UnchangedIndexer
    /\ UnchangedBuffer

\* the query for the active markets fails: incrementErrors is called
QueryErr(c) ==
    /\ run[c].pc = "query"
    /\ run' = [run EXCEPT ![c].pc = "errLock"]
    /\ UNCHANGED <<stats, statsmu, runhist>>
    /\ UnchangedIndexer
    /\ UnchangedBuffer

\* the query returns its rows
QueryOk(c, markets) ==
    /\ run[c].pc = "query"
    /\ run' = [run EXCEPT ![c].markets = markets, ![c].i = 1,
                          ![c].pc = IF markets = <<>> THEN "statsLock" ELSE "calc"]
    /\ UNCHANGED <<stats, statsmu, runhist>>
    /\ UnchangedIndexer
    /\ UnchangedBuffer

\* one iteration of `for _, market := range markets`: calculateMarketMetrics
\* returns nil (ok) or an error, which is logged. Both the log of the
\* error (`market.Address[:10]`) and the log of the success
\* (`marketAddress[:10]`) slice the address and panic on a short one.
Calc(c, ok) ==
    /\ run[c].pc = "calc"
    /\ LET addr == run[c].markets[run[c].i]
       IN  run' = [run EXCEPT
                     ![c].lastErr = ~ok,
                     ![c].i = IF SlicePanics(addr) THEN @ ELSE @ + 1,
                     ![c].pc = IF SlicePanics(addr) THEN "panicked"
                               ELSE IF run[c].i = Len(run[c].markets) THEN "statsLock"
                               ELSE "calc"]
    /\ UNCHANGED <<stats, statsmu, runhist>>
    /\ UnchangedIndexer
    /\ UnchangedBuffer

\* incrementErrors, updateStats: `s.mu.Lock()`
StatsLock(c) ==
    /\ run[c].pc \in {"errLock", "statsLock"}
    /\ StatsLockFree(statsmu)
    /\ statsmu' = c
    /\ run' = [run EXCEPT ![c].pc = IF run[c].pc = "errLock" THEN "errRead" ELSE "statsRead"]
    /\ UNCHANGED <<stats, runhist>>
    /\ UnchangedIndexer
    /\ UnchangedBuffer

\* `s.stats.Errors++`, `s.stats.MetricsSyncCount++`: the counter is read
StatsRead(c) ==
    /\ run[c].pc \in {"errRead", "statsRead"}
    /\ run' = [run EXCEPT
                 ![c].tmp = IF run[c].pc = "errRead" THEN stats.Errors
                            ELSE stats.MetricsSyncCount,
                 ![c].pc = IF run[c].pc = "errRead" THEN "errWrite" ELSE "statsWrite"]
    /\ UNCHANGED <<stats, statsmu, runhist>>
    /\ UnchangedIndexer
    /\ UnchangedBuffer

\* the counter is written, the deferred Unlock runs, SyncMetrics returns
\* (the query's error after incrementErrors, nil after updateStats)
StatsWrite(c) ==
    /\ run[c].pc \in {"errWrite", "statsWrite"}
    /\ stats' = IF run[c].pc = "errWrite"
                THEN [stats EXCEPT !.Errors = run[c].tmp + 1]
                ELSE [stats EXCEPT !.MetricsSyncCount = run[c].tmp + 1]
    /\ runhist' = IF run[c].pc = "errWrite"
                  THEN [runhist EXCEPT !.failed = @ + 1]
                  ELSE [runhist EXCEPT !.ok = @ + 1]
    /\ statsmu' = 0
    /\ run' = [run EXCEPT ![c] = RunFrame0]
    /\ UnchangedIndexer
    /\ UnchangedBuffer

NextService ==
    \/ \E c \in SyncCallers : SyncMetrics(c)
    \/ \E c \in SyncCallers : QueryErr(c)
    \/ \E c \in SyncCallers : \E markets \in MarketLists : QueryOk(c, markets)
    \/ \E c \in SyncCallers : \E ok \in BOOLEAN : Calc(c, ok)
    \/ \E c \in SyncCallers : StatsLock(c)
    \/ \E c \in SyncCallers : StatsRead(c)
    \/ \E c \in SyncCallers : StatsWrite(c)

InitService ==
    /\ stats = NewService
    /\ statsmu = 0
    /\ run = [c \in SyncCallers |-> RunFrame0]
    /\ runhist = [ok |-> 0, failed |-> 0]

----------------------------------------------------------------------------

InitListener(e) ==
    /\ env = e
    /\ ctx = "live"
    /\ net = "flaky"
    /\ ticker = 0
    /\ polls = 0
    /\ tip = 0
    /\ ledger = <<>>
    /\ sync_state = NoRow
    /\ Activity = {}
    /\ Market = [m \in {MarketAddr, OtherMarket} |-> "active"]
    /\ pc = "down"
    /\ lastVersion = 0
    /\ latestVersion = 0
    /\ start = 0
    /\ txs = <<0, 0>>
    /\ txIdx = 0
    /\ evIdx = 0
    /\ hist = Hist0

InitCalls ==
    /\ mu = 0
    /\ now = 0
    /\ call = [c \in Callers |-> Frame0]
    /\ rhist = <<>>

InitWith(e) ==
    /\ InitListener(e)
    /\ rotator = NewAPIKeyRotator(<<>>, <<>>)
    /\ InitCalls
    /\ InitBuffer(MaxSize)
    /\ InitService

Next ==
    \/ \E gap \in env.strides, shape \in env.shapes : Commit(gap, shape)
    \/ StartLoaded
    \/ \E resp \in LedgerResponses : StartFromLatest(resp)
    \/ \E resp \in LedgerResponses : StartFails(resp)
    \/ Kill
    \/ \E resp \in LedgerResponses : TickLedgerErr(resp)
    \/ \E resp \in LedgerResponses : TickNoNew(resp)
    \/ \E resp \in LedgerResponses : TickBegin(resp)
    \/ FetchErr
    \/ \E n \in 0..batchSize : FetchOk(n)
    \/ ProcessSkipped
    \/ ProcessTxReturn
    \/ \E execOk \in BOOLEAN : \E hook \in WebhookAnswers \cup {"none"} :
          ProcessEvent(execOk, hook)
    \/ EndBatch
    \/ AdvanceCheckpoint
    \/ \E execOk \in BOOLEAN : Save(execOk)

\* every fault of the environment
Init ==
    InitWith([shapes |-> Shapes, faults |-> TRUE, track |-> FALSE, timer |-> FALSE,
              short |-> TRUE, webhook |-> FALSE, cancel |-> FALSE, strides |-> Strides,
              last |-> FALSE])

\* creations and resolutions
InitOrder ==
    InitWith([shapes |-> OrderShapes, faults |-> TRUE, track |-> FALSE, timer |-> FALSE,
              short |-> TRUE, webhook |-> FALSE, cancel |-> FALSE, strides |-> Strides,
              last |-> FALSE])

SpecOrder == InitOrder /\ [][Next]_vars

Spec == Init /\ [][Next]_vars

\* The history of the previous run of the process is kept. The handlers'
\* statements succeed and the range fetches answer in full: what is left is
\* kills, failed ledger calls, failed loads and failed saves.
InitCrash ==
    InitWith([shapes |-> CrashShapes, faults |-> FALSE, track |-> TRUE, timer |-> FALSE,
              short |-> FALSE, webhook |-> FALSE, cancel |-> FALSE, strides |-> Strides,
              last |-> FALSE])

SpecCrash == InitCrash /\ [][Next]_vars

\* The ticker of Start is part of the scenario, and the ledger carries
\* transactions that are not successful or not user transactions.
InitLoop ==
    InitWith([shapes |-> LoopShapes, faults |-> FALSE, track |-> FALSE, timer |-> TRUE,
              short |-> FALSE, webhook |-> FALSE, cancel |-> FALSE, strides |-> Strides,
              last |-> FALSE])

NextLoop == Next \/ TimerFires

SpecLoop == InitLoop /\ [][NextLoop]_vars

\* main cancels the context of Start at some point.
InitCancel ==
    InitWith([shapes |-> {"mint"}, faults |-> FALSE, track |-> FALSE, timer |-> FALSE,
              short |-> FALSE, webhook |-> FALSE, cancel |-> TRUE, strides |-> Strides,
              last |-> FALSE])

NextCancel == Next \/ Cancel \/ Exit

SpecCancel == InitCancel /\ [][NextCancel]_vars

\* The service is started with a readable checkpoint and restarted when it
\* panics; the ledger carries mints, with and without a market address; the
\* node's calls may fail until it recovers. The timer keeps firing and the
\* goroutine of Start keeps running.
LiveShapes == {"mint", "mintNoMkt"}

InitLive ==
    InitWith([shapes |-> LiveShapes, faults |-> FALSE, track |-> FALSE, timer |-> TRUE,
              short |-> FALSE, webhook |-> FALSE, cancel |-> FALSE, strides |-> Strides,
              last |-> FALSE])

\* the steps of the goroutine that runs Start, once it is in its loop
Listener ==
    \/ \E resp \in LedgerResponses : TickLedgerErr(resp)
    \/ \E resp \in LedgerResponses : TickNoNew(resp)
    \/ \E resp \in LedgerResponses : TickBegin(resp)
    \/ FetchErr
    \/ \E n \in 0..batchSize : FetchOk(n)
    \/ ProcessSkipped
    \/ ProcessTxReturn
    \/ ProcessEvent(TRUE, "none")
    \/ EndBatch
    \/ AdvanceCheckpoint
    \/ Save(TRUE)

NextLive ==
    \/ \E gap \in env.strides, shape \in env.shapes : Commit(gap, shape)
    \/ StartLoaded
    \/ Listener
    \/ TimerFires
    \/ Heal

SpecLive ==
    /\ InitLive
    /\ [][NextLive]_vars
    /\ WF_vars(StartLoaded)
    /\ WF_vars(TimerFires)
    /\ WF_vars(Listener)

\* The notifier is configured or not, the handlers' statements may fail, and the
\* ledger carries events of other modules, of unregistered kinds and of
\* unexpected formats, and transactions of several events.
InitDispatch ==
    \E configured \in BOOLEAN :
        InitWith([shapes |-> DispatchShapes, faults |-> TRUE, track |-> FALSE,
                  timer |-> FALSE, short |-> FALSE, webhook |-> configured,
                  cancel |-> FALSE, strides |-> {2}, last |-> TRUE])

SpecDispatch == InitDispatch /\ [][Next]_vars

\* The handlers' statements may fail, and the ledger carries mints whose
\* is_yes is not a JSON boolean, transactions of several events, and
\* resolutions of markets that have no row.
InitHandlers ==
    InitWith([shapes |-> HandlerShapes, faults |-> TRUE, track |-> FALSE, timer |-> FALSE,
              short |-> FALSE, webhook |-> FALSE, cancel |-> FALSE, strides |-> {2},
              last |-> TRUE])

SpecHandlers == InitHandlers /\ [][Next]_vars

\* The notifier is configured, the handlers' statements may fail, and the
\* ledger carries burns and mints without a market address.
InitNotify ==
    InitWith([shapes |-> NotifyShapes, faults |-> TRUE, track |-> FALSE, timer |-> FALSE,
              short |-> FALSE, webhook |-> TRUE, cancel |-> FALSE, strides |-> {2},
              last |-> TRUE])

SpecNotify == InitNotify /\ [][Next]_vars

\* The rotator and its callers; the listener is not started.
InitRotator ==
    /\ InitListener([shapes |-> {}, faults |-> FALSE, track |-> FALSE, timer |-> FALSE,
                     short |-> FALSE, webhook |-> FALSE, cancel |-> FALSE, strides |-> Strides,
              last |-> FALSE])
    /\ \E a \in AptosPools, n \in NoditPools : rotator = NewAPIKeyRotator(a, n)
    /\ InitCalls
    /\ InitBuffer(MaxSize)
    /\ InitService

SpecRotator == InitRotator /\ [][NextRotator]_vars

\* The log buffer and its callers; the listener is not started.
InitLogs ==
    /\ InitListener([shapes |-> {}, faults |-> FALSE, track |-> FALSE, timer |-> FALSE,
                     short |-> FALSE, webhook |-> FALSE, cancel |-> FALSE, strides |-> Strides,
                     last |-> FALSE])
    /\ rotator = NewAPIKeyRotator(<<>>, <<>>)
    /\ InitCalls
    /\ \E maxSize \in 0..MaxSize : InitBuffer(maxSize)
    /\ InitService

SpecLogs == InitLogs /\ [][NextBuffer]_vars

\* The sync service and the overlapping calls of SyncMetrics.
InitSync ==
    /\ InitListener([shapes |-> {}, faults |-> FALSE, track |-> FALSE, timer |-> FALSE,
                     short |-> FALSE, webhook |-> FALSE, cancel |-> FALSE, strides |-> Strides,
                     last |-> FALSE])
    /\ rotator = NewAPIKeyRotator(<<>>, <<>>)
    /\ InitCalls
    /\ InitBuffer(MaxSize)
    /\ InitService

SpecSync == InitSync /\ [][NextService]_vars

----------------------------------------------------------------------------
(* Properties *)

InTick == pc \in {"fetch", "process", "advance", "save"}

Stored == ParseUint(sync_state).v

HasRow(h) == \E r \in Activity : r.txHash = h

\* the step enters processTx for the current transaction(s) of the batch
Dispatching ==
    /\ pc = "process"
    /\ txIdx <= txs[2]
    /\ evIdx = 1
    /\ txIdx' # txIdx \/ evIdx' # evIdx \/ pc' = "panicked"

\* C1: replaying a transaction through processTx leaves the Activity table as
\* the first dispatch left it (a step of processTx on a transaction that has
\* its row changes no row), and no two rows ever share a transaction hash.
C1_Idempotent ==
    /\ [](\A r1, r2 \in Activity : r1.txHash = r2.txHash => r1 = r2)
    /\ [][(pc = "process" /\ txIdx <= txs[2] /\ HasRow(CurTx.Hash)) => Activity' = Activity]_vars

\* a mint at version 1 is handled again while the row of a later version, and
\* so its own older row, are in the table
C1_Witness ==
    /\ pc = "process"
    /\ txIdx <= txs[2]
    /\ CurTx.Version = 1
    /\ evIdx = 2
    /\ hist.handled = <<<<1, "SharesMintedEvent">>>>
    /\ Cardinality(Activity) = 2
    /\ \E r \in Activity : r.txHash = 1 /\ r.id = 1
    /\ \E r \in Activity : r.txHash > 1 /\ r.id = 2

\* C2: the stored checkpoint never decreases (and its row is never removed).
C2_Monotonic ==
    [][sync_state # NoRow => (sync_state' # NoRow /\ ParseUint(sync_state').v >= Stored)]_vars

\* the stored checkpoint was advanced by a run that started from a stored value
C2_Witness ==
    /\ pc = "idle"
    /\ hist.loaded
    /\ hist.c0 > 0
    /\ sync_state # NoRow
    /\ Stored > hist.c0

\* C3 as stated: when poll returns nil after walking a range, the stored
\* checkpoint is the latest version read at the start of the tick.
C3_Original ==
    [][(pc = "save" /\ pc' = "idle") => sync_state' = FormatUint(latestVersion)]_vars

\* C3 amended: when poll returns nil after walking a range, lastVersion is the
\* latest version L read at the start of the tick, and the stored checkpoint
\* is L or, the save having failed, what it was.
C3_Amended ==
    [][(pc = "save" /\ pc' = "idle") =>
          /\ lastVersion' = latestVersion
          /\ sync_state' = FormatUint(latestVersion) \/ sync_state' = sync_state]_vars

\* a tick has ended without error and the stored checkpoint is behind
C3_Witness ==
    /\ pc = "idle"
    /\ hist.loaded
    /\ lastVersion > hist.c0
    /\ Stored = hist.c0
    /\ hist.tickMax = lastVersion

\* C4: every version between the checkpoint the polling loop started from and
\* the current checkpoint has been passed to processTx.
C4_Applied ==
    pc \in {"idle", "fetch", "process", "advance", "save"} =>
        \A v \in (hist.c0 + 1)..lastVersion : Within(hist.dispatched, v)

\* C5: a failed fetch ends the tick with lastVersion, the stored checkpoint
\* and the tables as they were at its start, and the next tick's first fetch
\* starts where the aborted tick's first fetch started.
C5_FetchFailure ==
    /\ [][(pc = "fetch" /\ pc' = "idle") =>
             /\ lastVersion' = lastVersion
             /\ lastVersion = hist.tickBase
             /\ UNCHANGED <<sync_state, Activity, Market>>]_vars
    /\ [][(pc = "idle" /\ pc' = "fetch" /\ hist.retryFrom # 0) => start' = hist.retryFrom]_vars

\* the fetch of a second batch failed, and the next tick starts over
C5_Witness ==
    /\ pc = "fetch"
    /\ start = 1
    /\ hist.dispatched = {<<1, batchSize>>}
    /\ hist.tickMax = 0
    /\ sync_state = FormatUint(0)

\* C6: a tick is left only by a failed fetch, by the process being killed, or
\* at its end with lastVersion advanced to the latest version.
C6_NoAbort ==
    [][(InTick /\ ~InTick') =>
          \/ pc = "fetch" /\ pc' = "idle"
          \/ pc' = "down"
          \/ pc = "save" /\ pc' = "idle" /\ lastVersion = latestVersion]_vars

\* C7: when the walk of a batch ends, other than by the process being killed,
\* every transaction of the batch but the one being processed has been
\* passed to processTx.
C7_Isolation ==
    [][(pc = "process" /\ pc' \notin {"process", "down"}) =>
          \A i \in 1..txs[2] : i # txIdx => VersionOf(txs, i) <= hist'.tickMax \/
                                            VersionOf(txs, i) <= hist.tickMax]_vars

\* C8: no handler panics: an event is handled and the loop goes on.
C8_NoPanic ==
    [][pc = "process" => pc' # "panicked"]_vars

\* C9: within a tick processTx is entered in strictly ascending version
\* order, within a batch and across batches, and the handlers run in that
\* order.
C9_Ordered ==
    /\ [](\A i, j \in 1..Len(hist.handled) : i < j => hist.handled[i][1] <= hist.handled[j][1])
    /\ [][Dispatching => CurTx.Version > hist.tickMax]_vars

\* a creation in the first batch and the resolution in the second were
\* handled in that order in one tick
C9_Witness ==
    /\ Len(hist.handled) = 2
    /\ hist.handled[1][2] = "MarketCreatedEvent"
    /\ hist.handled[2][2] = "MarketResolvedEvent"
    /\ hist.handled[1][1] <= batchSize
    /\ hist.handled[2][1] > batchSize
    /\ Market[MarketAddr] = "resolved"

----------------------------------------------------------------------------
(* A run without kills over the ledger up to version L, every call succeeding *)

RECURSIVE EventsApplied(_, _, _, _)
EventsApplied(tx, i, act, mkt) ==
    IF i > Len(tx.Events) THEN Result(act, mkt, "ok")
    ELSE LET r == DispatchEvent(tx.Events[i], tx, act, mkt, TRUE)
         IN  EventsApplied(tx, i + 1, r.act, r.mkt)

RECURSIVE CrashFree(_, _, _, _)
CrashFree(v, L, act, mkt) ==
    LET rest == {w \in DOMAIN ledger : v <= w /\ w <= L}
    IN  IF rest = {} THEN Result(act, mkt, "ok")
        ELSE LET w == CHOOSE x \in rest : \A y \in rest : x <= y
                 r == IF Skipped(TxAt(w)) THEN Result(act, mkt, "ok")
                      ELSE EventsApplied(TxAt(w), 1, act, mkt)
             IN  CrashFree(w + 1, L, r.act, r.mkt)

Market0 == [m \in {MarketAddr, OtherMarket} |-> "active"]

NoId(act) == {[r EXCEPT !.id = 0] : r \in act}

SameAsCrashFree(L) ==
    LET ideal == CrashFree(1, L, {}, Market0)
    IN  /\ NoId(Activity) = NoId(ideal.act)
        /\ Cardinality(Activity) = Cardinality(ideal.act)
        /\ Market = ideal.mkt

\* this run of the process follows one that ended inside a tick, and loaded
\* the stored checkpoint
Recovering == hist.prev.intick /\ hist.loaded

\* the tables at the end of the first tick of a recovering run are those of
\* a run without kills
C10_SameTables ==
    (Recovering /\ hist.clean /\ pc = "save") => SameAsCrashFree(lastVersion)

\* C10 as stated: the tables after the recovery are those of a run without
\* kills, and the recovering run passes to processTx no version that the
\* previous run had passed to it before the tick it ended in.
C10_Original ==
    /\ C10_SameTables
    /\ Recovering =>
         \A v \in (hist.prev.low + 1)..hist.prev.base :
             v \in hist.prev.holes \/ ~Within(hist.dispatched, v)

\* C10 amended: the tables after the recovery are those of a run without
\* kills, and the versions the recovering run passes to processTx again lie
\* between the stored checkpoint at the kill and the latest version of the
\* tick the previous run ended in: a run passes to processTx only versions
\* above the checkpoint it started from and, inside a tick, none above that
\* tick's latest version.
C10_Amended ==
    /\ C10_SameTables
    /\ Recovering => hist.c0 = ParseUint(hist.prev.stored).v
    /\ \A iv \in hist.dispatched : iv[1] > hist.c0
    /\ InTick => \A iv \in hist.dispatched : iv[2] <= latestVersion

\* a run killed between `l.lastVersion = latestVersion` and the save was
\* followed by a run that walked its range again, a mint included
C10_Witness ==
    /\ Recovering
    /\ hist.clean
    /\ hist.prev.at = "save"
    /\ pc = "save"
    /\ lastVersion >= hist.prev.end
    /\ \E r \in Activity : r.txHash > hist.prev.base /\ r.txHash <= hist.prev.end
    /\ Market[MarketAddr] = "resolved"
    /\ SameAsCrashFree(lastVersion)

\* C11: a process that started by loading the stored checkpoint c issues its
\* first range fetch at c + 1: as long as its checkpoint is the loaded one
\* (no tick has completed, so the stored value is still c), every tick that
\* goes on to fetch starts at the stored value plus one.
C11_Resume ==
    [][(pc = "idle" /\ pc' = "fetch" /\ hist.loaded /\ lastVersion = hist.c0)
         => start' = ParseUint(sync_state).v + 1]_vars

C11_Witness ==
    /\ pc = "fetch"
    /\ hist.loaded
    /\ hist.c0 > 0
    /\ lastVersion = hist.c0
    /\ hist.dispatched = {}
    /\ sync_state = FormatUint(hist.c0)
    /\ start = hist.c0 + 1

\* C12: a start that finds no stored checkpoint takes the ledger tip as its
\* checkpoint, and no run dispatches a version at or below the checkpoint it
\* started from.
C12_FromTip ==
    /\ [][(pc \in {"down", "panicked"} /\ pc' = "idle" /\ sync_state = NoRow)
            => lastVersion' = tip]_vars
    /\ [](\A iv \in hist.dispatched : iv[1] > hist.c0)

\* C13: at most one invocation of poll is running at any time, and a started
\* listener is either idle (no invocation) or polling (exactly one); a tick
\* that fires during a pass waits in ticker.C.
C13_OnePass ==
    /\ polls <= 1
    /\ Running => \/ pc = "idle" /\ polls = 0
                  \/ InTick /\ polls = 1

C13_Witness ==
    /\ InTick
    /\ polls = 1
    /\ ticker = 1
    /\ hist.dispatched # {}

\* C20: a step of processTx on a transaction that is not successful or not a
\* user transaction runs no handler and changes no table, whatever events
\* the transaction carries.
C20_NoOp ==
    [][(/\ pc = "process"
        /\ txIdx <= txs[2]
        /\ (~CurTx.Success \/ CurTx.Type # "user_transaction"))
         => /\ Activity' = Activity
            /\ Market' = Market
            /\ sync_state' = sync_state
            /\ pc' = "process" => hist'.handled = hist.handled]_vars

C20_Witness ==
    /\ \E v \in DOMAIN ledger :
          ledger[v] = "failedMint" /\ Within(hist.dispatched, v) /\ ~HasRow(TxAt(v).Hash)
    /\ \E v \in DOMAIN ledger :
          ledger[v] = "sysMint" /\ Within(hist.dispatched, v) /\ ~HasRow(TxAt(v).Hash)
    /\ hist.handled = <<>>
    /\ pc = "save"

\* the acquisitions from pool p that returned a key, in order of return
Acquired(p) == SelectSeq(rhist, LAMBDA e : e.pool = p /\ e.key # "")

\* the key the next acquisition from pool p returns
NextKey(p) ==
    IF Len(PoolOf(rotator, p)) = 0 THEN ""
    ELSE PoolOf(rotator, p)[(rotator.currentIdx % Len(PoolOf(rotator, p))) + 1]

\* caller c returns from its call in this step
Returns(c) == call[c].pc # "idle" /\ call'[c].pc = "idle"

\* C14: in each pool of N >= 1 keys, the k-th acquisition that returned got
\* key number (k-1) mod N of the pool (so each key is selected M/N times,
\* give or take one, in M acquisitions).
C14_Fair ==
    \A p \in {"aptos", "nodit"} :
       \A k \in 1..Len(Acquired(p)) :
          Acquired(p)[k].key = PoolOf(rotator, p)[((k - 1) % Len(PoolOf(rotator, p))) + 1]

\* C15: two acquisitions that return the same key are at least minDelay apart.
C15_Throttle ==
    \A i, j \in 1..Len(rhist) :
       (i < j /\ rhist[i].key # "" /\ rhist[i].key = rhist[j].key)
          => rhist[j].at - rhist[i].at >= minDelay

C15_Witness ==
    /\ Len(rotator.aptosKeys) = 1
    /\ Len(rhist) = 2
    /\ rhist[1].key = "a1"
    /\ rhist[2].key = "a1"
    /\ rhist[2].conc
    /\ rhist[1].at = minDelay - 1
    /\ rhist[2].at = rhist[1].at + minDelay

\* C16: an acquisition from one pool leaves the other pool's rotation as it
\* was: the key the next acquisition from the other pool returns is the same
\* before and after.
C16_Separate ==
    [][\A c \in Callers :
         (Returns(c) /\ call[c].op \in {"aptos", "nodit"})
            => LET other == IF call[c].op = "aptos" THEN "nodit" ELSE "aptos"
               IN  NextKey(other)' = NextKey(other)]_vars

\* C17: the Aptos acquisitions that returned, whatever their interleaving,
\* read pairwise different cursor values, the cursor has advanced by their
\* number, and each key was returned as often as in that many sequential
\* round-robin acquisitions.
C17_Concurrent ==
    LET A == Acquired("aptos")
        N == Len(rotator.aptosKeys)
    IN  /\ \A i, j \in 1..Len(A) : i # j => A[i].idx # A[j].idx
        /\ rotator.currentIdx = Len(A)
        /\ \A n \in 1..N :
              Cardinality({k \in 1..Len(A) : A[k].key = rotator.aptosKeys[n]})
                = Cardinality({k \in 1..Len(A) : ((k - 1) % N) + 1 = n})

C17_Witness ==
    LET A == Acquired("aptos")
    IN  /\ Len(rotator.aptosKeys) = 2
        /\ Len(A) >= 2
        /\ A[1].conc
        /\ A[2].conc
        /\ A[1].key # A[2].key

\* C18: an acquisition from an empty pool returns the empty string in the
\* step after it took the mutex: it does not sleep or panic, no time passes
\* in it, and the cursor and the last-used map are as before.
C18_Empty ==
    [][\A c \in Callers :
         (/\ call[c].pc = "locked"
          /\ call[c].op \in {"aptos", "nodit"}
          /\ Len(PoolOf(rotator, call[c].op)) = 0
          /\ call'[c] # call[c])
            => /\ call'[c].pc = "idle"
               /\ rhist' = Append(rhist, [pool |-> call[c].op, key |-> "", at |-> now,
                                          idx |-> rotator.currentIdx, conc |-> InFlight > 1])
               /\ rotator' = rotator
               /\ now' = now]_vars

C18_Witness ==
    /\ \E i \in 1..Len(rhist) : rhist[i].pool = "nodit" /\ rhist[i].key = "" /\ rhist[i].idx = 1
    /\ \E i \in 1..Len(rhist) : rhist[i].pool = "aptos" /\ rhist[i].key # ""
    /\ rotator.currentIdx = 1
    /\ DOMAIN rotator.lastUsed = {"a1"}
    /\ Len(rhist) = 2

\* C19: a call of GetStats leaves the rotator (cursor, last-used map, pools)
\* as it was, and with it the key the next acquisition from either pool returns.
C19_ReadOnly ==
    [][\A c \in Callers :
         (call[c].pc = "locked" /\ call[c].op = "stats" /\ Returns(c))
            => /\ rotator' = rotator
               /\ NextKey("aptos")' = NextKey("aptos")
               /\ NextKey("nodit")' = NextKey("nodit")]_vars

C19_Witness ==
    /\ Len(rotator.aptosKeys) = 2
    /\ Len(rhist) = 3
    /\ rhist[1].pool = "aptos" /\ rhist[1].key = "a1"
    /\ rhist[2].pool = "stats" /\ rhist[2].idx = 1
    /\ rhist[3].pool = "aptos" /\ rhist[3].key = "a2"

----------------------------------------------------------------------------
(* The dispatcher, the handlers and the notifier *)

\* one iteration of the event loop of processTx that did not panic
EventStep ==
    /\ pc = "process"
    /\ pc' = "process"
    /\ txIdx' = txIdx
    /\ evIdx' = evIdx + 1

\* the event the iteration is about, and the final segment of its type
CurEvent == CurTx.Events[evIdx]

LastSegment(type) == type[Len(type)]

\* the names of the handlers invoked so far on the events of version v, in order
HandledAt(v) ==
    LET at == SelectSeq(hist.handled, LAMBDA h : h[1] = v)
    IN  [k \in 1..Len(at) |-> at[k][2]]

\* C21 as stated: an iteration of the event loop invokes a handler if and
\* only if the event's type contains the module address and its final
\* segment is a registered kind, the handler is the one of that segment, and
\* an event that is not handled changes nothing and reports no error.
C21_Original ==
    [][EventStep =>
         LET type == CurEvent.Type
             runs == ContainsModule(type) /\ LastSegment(type) \in eventHandlers
         IN  IF runs
             THEN hist'.handled = Append(hist.handled, <<CurTx.Version, LastSegment(type)>>)
             ELSE /\ hist'.handled = hist.handled
                  /\ hist'.last = hist.last
                  /\ Activity' = Activity
                  /\ Market' = Market]_vars

\* C21 amended: an iteration of the event loop invokes a handler if and only
\* if the event's type contains the module address, has at least three
\* segments and its final segment is a registered kind; the handler is the
\* one of that segment, and an event that is not handled changes nothing and
\* reports no error.
C21_Amended ==
    [][EventStep =>
         LET type == CurEvent.Type
             runs == /\ ContainsModule(type)
                     /\ Len(type) >= 3
                     /\ LastSegment(type) \in eventHandlers
         IN  IF runs
             THEN hist'.handled = Append(hist.handled, <<CurTx.Version, LastSegment(type)>>)
             ELSE /\ hist'.handled = hist.handled
                  /\ hist'.last = hist.last
                  /\ Activity' = Activity
                  /\ Market' = Market]_vars

\* the four events of a transaction (foreign module, unregistered kind, two
\* segments, creation) are done, and only the creation handler was invoked
C21_Witness ==
    /\ pc = "process"
    /\ txIdx <= txs[2]
    /\ CurTx.Version \in DOMAIN ledger
    /\ ledger[CurTx.Version] = "routing"
    /\ evIdx = 5
    /\ HandledAt(CurTx.Version) = <<"MarketCreatedEvent">>
    /\ Activity = {}

\* the event is one a handler is registered for
Matching(event) ==
    /\ ContainsModule(event.Type)
    /\ Len(event.Type) >= 3
    /\ LastSegment(event.Type) \in eventHandlers

\* the event loop of processTx has gone through the current transaction
WalkDone ==
    /\ pc = "process"
    /\ txIdx <= txs[2]
    /\ CurTx.Success
    /\ CurTx.Type = "user_transaction"
    /\ evIdx = Len(CurTx.Events) + 1

\* the invocations the walk of the current transaction makes when no handler
\* error stops it: one per matching event, in event order
Expected ==
    LET matching == SelectSeq(CurTx.Events, Matching)
    IN  [k \in 1..Len(matching) |-> <<CurTx.Version, LastSegment(matching[k].Type)>>]

\* C22: when the event loop has gone through a transaction, the handlers of
\* all its matching events were invoked, in event order, whichever of them
\* returned an error.
C22_Siblings ==
    WalkDone =>
        LET n == Len(hist.handled)
            k == Len(Expected)
        IN  /\ k <= n
            /\ SubSeq(hist.handled, n - k + 1, n) = Expected

\* the burn of a burn, resolution and mint transaction failed (it has no
\* row), and the resolution and the mint after it were handled
C22_Witness ==
    /\ WalkDone
    /\ CurTx.Version \in DOMAIN ledger
    /\ ledger[CurTx.Version] = "trades"
    /\ HandledAt(CurTx.Version)
         = <<"SharesBurnedEvent", "MarketResolvedEvent", "SharesMintedEvent">>
    /\ \A r \in Activity : r.txHash = CurTx.Hash => r.action = "BUY"
    /\ \E r \in Activity : r.txHash = CurTx.Hash
    /\ Market[MarketAddr] = "resolved"

\* C23: a call of SendEvent whose POST failed in transport or was answered
\* with a status outside 2xx returned no error.
C23_BestEffort ==
    (hist.last.sent = 1 /\ hist.last.answer \in {"neterr", "status"})
        => ~hist.last.sendErr

\* the creation handler's POST was answered with a status outside 2xx
C23_Witness ==
    /\ hist.last.name = "MarketCreatedEvent"
    /\ hist.last.sent = 1
    /\ hist.last.answer = "status"
    /\ ~hist.last.sendErr

\* C24: an iteration that runs the mint, burn or creation handler ends as
\* the handler's persistence part alone ends, with the tables that part
\* leaves, whether the notifier call succeeds, fails or is not made.
C24_NotPropagated ==
    [][(/\ EventStep
        /\ Matching(CurEvent)
        /\ LastSegment(CurEvent.Type) \in
              {"SharesMintedEvent", "SharesBurnedEvent", "MarketCreatedEvent"})
         => \E execOk \in BOOLEAN :
               LET r == Handler(LastSegment(CurEvent.Type), CurEvent, CurTx,
                                Activity, Market, execOk)
               IN  /\ hist'.last.end = r.end
                   /\ Activity' = r.act
                   /\ Market' = r.mkt
                   /\ (\E row \in Activity' \ Activity : TRUE) => hist'.last.end = "ok"]_vars

\* the burn handler stored its row and returned nil although SendEvent
\* returned an error
C24_Witness ==
    /\ hist.last.name = "SharesBurnedEvent"
    /\ hist.last.sendErr
    /\ hist.last.end = "ok"
    /\ \E r \in Activity : r.txHash = hist.last.version /\ r.action = "SELL"

\* n / d as the quotient the handlers store
Ratio(n, d) == [num |-> n, den |-> d]

\* C25: after the mint handler returned nil on a mint event with
\* apt_amount_in "100000000" and shares_out "2000000", the Activity table
\* holds for the transaction a BUY row with amount 2000000 / 1e6 = 2.0 and
\* value 100000000 / 1e8 = 1.0, whose outcome is YES when is_yes is the
\* boolean true and NO otherwise.
C25_MintRow ==
    [][(/\ EventStep
        /\ Matching(CurEvent)
        /\ LastSegment(CurEvent.Type) = "SharesMintedEvent"
        /\ hist'.last.end = "ok")
         => \E r \in Activity' :
               /\ r.txHash = CurTx.Hash
               /\ r.action = "BUY"
               /\ r.amount = Ratio(2 * 1000000, 1000000)
               /\ r.totalValue = Ratio(1 * 100000000, 100000000)
               /\ r.outcome = IF CurEvent.Data["is_yes"] = Bool(TRUE) THEN "YES" ELSE "NO"
               /\ \A q \in Activity' : q.txHash = r.txHash => q = r]_vars

\* a mint with is_yes true and a mint with is_yes "true" have their rows
C25_Witness ==
    /\ \E r \in Activity :
          r.action = "BUY" /\ r.outcome = "YES" /\ ledger[r.txHash] = "pair"
    /\ \E r \in Activity :
          r.action = "BUY" /\ r.outcome = "NO" /\ ledger[r.txHash] = "mintStr"
    /\ hist.last.name = "SharesMintedEvent"
    /\ hist.last.end = "ok"

\* C26: an iteration that runs the resolution handler adds and removes no
\* market row, leaves the Activity table and every other market as they
\* were, leaves the market of the event resolved when the handler returned
\* nil and the market has a row, and changes nothing when that market was
\* resolved already.
C26_UpdateOnly ==
    [][(/\ EventStep
        /\ Matching(CurEvent)
        /\ LastSegment(CurEvent.Type) = "MarketResolvedEvent")
         => LET addr == CurEvent.Data["market_address"].s
            IN  /\ DOMAIN Market' = DOMAIN Market
                /\ Activity' = Activity
                /\ \A m \in DOMAIN Market \ {addr} : Market'[m] = Market[m]
                /\ (hist'.last.end = "ok" /\ addr \in DOMAIN Market)
                      => Market'[addr] = "resolved"
                /\ (addr \in DOMAIN Market /\ Market[addr] = "resolved")
                      => Market' = Market]_vars

\* the market's resolution was handled in two transactions of one tick, the
\* second one has returned nil, and the other market is as it was
C26_Witness ==
    /\ Market[MarketAddr] = "resolved"
    /\ Market[OtherMarket] = "active"
    /\ DOMAIN Market = {MarketAddr, OtherMarket}
    /\ hist.last.name = "MarketResolvedEvent"
    /\ hist.last.end = "ok"
    /\ \E i, j \in 1..Len(hist.handled) :
          /\ i < j
          /\ hist.handled[i] [2] = "MarketResolvedEvent"
          /\ hist.handled[j] [2] = "MarketResolvedEvent"
          /\ ledger[hist.handled[i] [1]] = "pair"
          /\ ledger[hist.handled[j] [1]] = "pair"

\* C27: an iteration that runs the creation handler leaves the Activity
\* table, the market rows, the stored checkpoint and lastVersion as they
\* were and returns nil; it calls the notifier once when one is configured
\* and not at all otherwise.
C27_NothingStored ==
    [][(/\ EventStep
        /\ Matching(CurEvent)
        /\ LastSegment(CurEvent.Type) = "MarketCreatedEvent")
         => /\ Activity' = Activity
            /\ Market' = Market
            /\ sync_state' = sync_state
            /\ lastVersion' = lastVersion
            /\ hist'.last.end = "ok"
            /\ hist'.last.sent = IF env.webhook THEN 1 ELSE 0]_vars

\* the creation handler has run and its POST was delivered; no table has a
\* new row or a changed one
C27_Witness ==
    /\ hist.last.name = "MarketCreatedEvent"
    /\ hist.last.sent = 1
    /\ hist.last.answer = "ok"
    /\ Activity = {}
    /\ Market = Market0

----------------------------------------------------------------------------
(* The ledger client, cancellation and the save at the end of a tick *)

\* C28: a call of the ledger client hands its caller a version or a batch
\* only when the ledger answered it with success: a start that falls back
\* to the latest version enters the polling loop with the ledger's tip as
\* its checkpoint, every failed or non-2xx query making Start return the
\* error, and a batch is walked only as the transactions from `start`.
C28_Surfaced ==
    /\ [][(pc \in {"down", "panicked"} /\ pc' = "idle" /\ ~hist'.loaded)
            => lastVersion' = tip]_vars
    /\ [][(pc = "fetch" /\ pc' = "process") => txs'[1] = start]_vars

\* C29: a tick that is in flight when the context is cancelled runs to
\* its completion: while the process lives, it is left only at its end, with
\* lastVersion advanced to the latest version and stored, and the loop does
\* not exit inside it.
C29_TickCompletes ==
    [][(ctx = "cancelled" /\ InTick /\ ~InTick' /\ pc' # "down")
         => /\ pc = "save"
            /\ pc' = "idle"
            /\ lastVersion' = latestVersion
            /\ sync_state' = FormatUint(latestVersion)]_vars

\* C30: when the save at the end of a tick that read latest version L
\* leaves the stored checkpoint other than L, poll has returned with
\* lastVersion equal to L and the stored checkpoint as it was; and every
\* tick that finds new versions starts at lastVersion + 1.
C30_SaveFailure ==
    /\ [][(pc = "save" /\ pc' = "idle" /\ sync_state' # FormatUint(latestVersion))
            => /\ lastVersion' = latestVersion
               /\ sync_state' = sync_state
               /\ polls' = polls - 1]_vars
    /\ [][(pc = "idle" /\ InTick') => start' = lastVersion + 1]_vars

\* a tick of this run advanced lastVersion past the stored checkpoint, its
\* save having failed, and the next tick fetches from lastVersion + 1
C30_Witness ==
    /\ pc = "fetch"
    /\ hist.loaded
    /\ hist.c0 = Stored
    /\ lastVersion > Stored
    /\ start = lastVersion + 1
    /\ hist.tickBase = lastVersion

----------------------------------------------------------------------------
(* Ticks: nothing new, retries and the batch walk *)

\* C31: while the ledger's tip is at or below lastVersion, a tick the loop
\* takes is a no-op whatever the ledger answers: it does not enter the range
\* walk (no fetch, no handler, no notifier call) and leaves lastVersion, the
\* stored checkpoint and the tables as they were.
C31_NothingNew ==
    [][(/\ pc = "idle"
        /\ ticker = 1
        /\ tip <= lastVersion
        /\ pc' # "down")
         => /\ pc' = "idle"
            /\ UNCHANGED <<lastVersion, sync_state, Activity, Market, hist, polls>>]_vars

\* the checkpoint, stored, has reached a tip above 0 and a tick waits in
\* ticker.C
C31_Witness ==
    /\ pc = "idle"
    /\ ticker = 1
    /\ tip >= 1
    /\ lastVersion = tip
    /\ sync_state = FormatUint(tip)
    /\ hist.dispatched # {}

\* C32: if from some point on the node answers every call with success,
\* then, the timer firing and the loop being scheduled, lastVersion reaches
\* the ledger's tip again and again, that is, once the tip stays at L,
\* lastVersion reaches L.
C32_Retry == <>[](net = "healthy") => []<>(lastVersion = tip)

\* ceil(n / d)
Ceil(n, d) == (n + d - 1) \div d

\* C33: in a tick with checkpoint c and latest version L > c, the range
\* requests answered so far are contiguous, each has a limit from 1 to 100,
\* the first starts at c + 1 and none passes L; while a fetch is pending
\* fewer than ceil((L - c) / 100) were issued, and when the batch loop has
\* ended exactly ceil((L - c) / 100) were, the last one ending at L.
C33_Batches ==
    InTick =>
        LET R == hist.requests
            c == hist.tickBase
            L == latestVersion
            n == Len(R)
        IN  /\ L > c
            /\ \A i \in 1..n :
                  /\ R[i][2] >= 1
                  /\ R[i][2] <= 100
                  /\ R[i][1] = IF i = 1 THEN c + 1 ELSE R[i - 1][1] + R[i - 1][2]
                  /\ R[i][1] + R[i][2] - 1 <= L
            /\ pc = "fetch" => n < Ceil(L - c, 100)
            /\ pc \in {"advance", "save"} =>
                  /\ n = Ceil(L - c, 100)
                  /\ R[n][1] + R[n][2] - 1 = L

\* the batch loop of a tick over 101 versions has ended after the requests
\* (1, 100) and (101, 1)
C33_Witness ==
    /\ pc = "advance"
    /\ hist.tickBase = 0
    /\ latestVersion = 101
    /\ hist.requests = <<(<<1, 100>>), (<<101, 1>>)>>

\* a caller between `r.mu.Lock()` and the deferred Unlock
Holding(c) == call[c].pc \in {"locked", "sleep", "record"}

IsTrade(event) ==
    Matching(event) /\ LastSegment(event.Type) \in {"SharesMintedEvent", "SharesBurnedEvent"}

\* the action a trade's row carries
ActionOf(event) == IF LastSegment(event.Type) = "SharesMintedEvent" THEN "BUY" ELSE "SELL"

\* the activity rows of the current transaction
RowsOfTx(act) == {r \in act : r.txHash = CurTx.Hash}

\* the current event is the first mint or burn of its transaction
FirstTrade == \A j \in 1..(evIdx - 1) : ~IsTrade(CurTx.Events[j])

\* C35 as stated: of the mint and burn events of one transaction the first
\* in event order gives the transaction its activity row, the later ones
\* change nothing and their handlers return no error, and when the event
\* loop has gone through the transaction it has exactly one row.
C35_Original ==
    /\ [][(EventStep /\ IsTrade(CurEvent)) =>
             IF FirstTrade
             THEN \E r \in RowsOfTx(Activity') : r.action = ActionOf(CurEvent)
             ELSE /\ Activity' = Activity
                  /\ hist'.last.end = "ok"]_vars
    /\ []((WalkDone /\ \E j \in 1..Len(CurTx.Events) : IsTrade(CurTx.Events[j]))
            => Cardinality(RowsOfTx(Activity)) = 1)

\* C35 amended: of the mint and burn events of one transaction only the
\* first whose insert is executed without error, the transaction having no
\* row yet, produces an activity row (its own); an insert executed when the
\* transaction has its row is ignored and returns no error, an insert that
\* fails stores nothing, and the transaction has at most one row, exactly
\* one from the first insert executed without error on.
C35_Amended ==
    /\ [][(EventStep /\ IsTrade(CurEvent)) =>
             LET had == RowsOfTx(Activity) # {}
                 ok  == hist'.last.end = "ok"
             IN  /\ Activity' # Activity =>
                       /\ ok
                       /\ ~had
                       /\ \E r \in RowsOfTx(Activity') :
                             /\ r.action = ActionOf(CurEvent)
                             /\ Activity' = Activity \cup {r}
                 /\ (ok /\ had) => Activity' = Activity
                 /\ ok => Cardinality(RowsOfTx(Activity')) = 1
                 /\ ~ok => Activity' = Activity]_vars
    /\ [](\A r1, r2 \in Activity : r1.txHash = r2.txHash => r1 = r2)

\* the event loop has gone through a burn, resolution and mint transaction:
\* the burn stored the row, the mint's insert was ignored and its handler
\* returned no error
C35_Witness ==
    /\ WalkDone
    /\ CurTx.Version \in DOMAIN ledger
    /\ ledger[CurTx.Version] = "trades"
    /\ hist.last.name = "SharesMintedEvent"
    /\ hist.last.end = "ok"
    /\ HandledAt(CurTx.Version)
         = <<"SharesBurnedEvent", "MarketResolvedEvent", "SharesMintedEvent">>
    /\ \E r \in Activity : RowsOfTx(Activity) = {r} /\ r.action = "SELL"

\* an iteration of the event loop on a mint or a burn, the notifier
\* configured: the handler returns or panics
TradeStep ==
    /\ env.webhook
    /\ pc = "process"
    /\ txIdx <= txs[2]
    /\ ~Skipped(CurTx)
    /\ evIdx <= Len(CurTx.Events)
    /\ IsTrade(CurEvent)
    /\ EventStep \/ pc' = "panicked"

\* C36: the handler of a mint or burn event, the notifier configured,
\* attempts one send when its insert returned no error (the insert of a
\* replay, ignored as a duplicate, included) and none when the insert
\* failed. A handler that panics has had its insert executed without error
\* and has not reached the send.
C36_Notified ==
    [][TradeStep =>
         LET persisted == IF pc' = "panicked" THEN TRUE ELSE hist'.last.end = "ok"
             sent      == IF pc' = "panicked" THEN 0 ELSE hist'.last.sent
         IN  /\ sent \in {0, 1}
             /\ sent = 1 <=> persisted]_vars

\* C37: whenever Start enters the polling loop, with the checkpoint loaded
\* or, the load having failed, with the version the ledger answered, the
\* lastVersion it begins with is at least the checkpoint stored at that
\* moment.
C37_StartAbove ==
    [][(pc \in {"down", "panicked"} /\ pc' = "idle")
         => lastVersion' >= ParseUint(sync_state').v]_vars

\* the number of acquisitions from the Aptos pool among the first n calls
\* that returned, the ones that returned a key
AptosReturns(n) ==
    Cardinality({j \in 1..n : rhist[j].pool = "aptos" /\ rhist[j].key # ""})

\* C38: the total_rotations a GetStats call reports is the number of
\* acquisitions from the Aptos pool that returned a key before it; the
\* counter behind it changes only when such an acquisition returns, by one
\* upwards, so acquisitions from the Nodit pool and from an empty pool leave
\* it alone and it never decreases.
C38_Rotations ==
    /\ [](/\ rotator.currentIdx = AptosReturns(Len(rhist))
          /\ \A k \in 1..Len(rhist) :
                rhist[k].pool = "stats" => rhist[k].idx = AptosReturns(k - 1))
    /\ [][/\ rotator'.currentIdx >= rotator.currentIdx
          /\ rotator'.currentIdx # rotator.currentIdx =>
                /\ rotator'.currentIdx = rotator.currentIdx + 1
                /\ Len(rhist') = Len(rhist) + 1
                /\ rhist'[Len(rhist')].pool = "aptos"
                /\ rhist'[Len(rhist')].key # ""]_vars

\* GetStats reported 1 after an acquisition from the Nodit pool and one
\* from the Aptos pool returned their keys
C38_Witness ==
    /\ Len(rhist) = 3
    /\ rhist[1].pool = "nodit"
    /\ rhist[1].key # ""
    /\ rhist[2].pool = "aptos"
    /\ rhist[2].key # ""
    /\ rhist[3].pool = "stats"
    /\ rhist[3].idx = 1

Min(a, b) == IF a < b THEN a ELSE b

\* the last n elements of seq
LastN(seq, n) == SubSeq(seq, Len(seq) - n + 1, Len(seq))

\* the last maxSize of the entries number cleared + 1 to added, in the order
\* of their addition
Kept(added, cleared, maxSize) ==
    LET n == Min(added - cleared, maxSize)
    IN  [k \in 1..n |-> LogEntry(added - n + k)]

\* C39: whenever no Add is between its append and its trim (it holds the
\* lock there), the buffer holds at most maxSize entries, and they are the
\* last maxSize of the entries added since the last Clear, in the order of
\* their addition; and the last GetRecent(limit) that returned saw such a
\* buffer and returned its last min(limit, size) entries, all of them for a
\* limit of 0 or less.
C39_LastEntries ==
    /\ (\A c \in BufCallers : bufcall[c].pc # "trim") =>
          /\ Len(globalBuffer.entries) <= globalBuffer.maxSize
          /\ globalBuffer.entries = Kept(bufhist.added, bufhist.cleared, globalBuffer.maxSize)
    /\ LET g == bufhist.last
       IN  g.calls > 0 =>
              /\ g.held = Kept(g.added, g.cleared, globalBuffer.maxSize)
              /\ g.ret = LastN(g.held, IF g.limit <= 0 THEN Len(g.held)
                                       ELSE Min(g.limit, Len(g.held)))

\* with maxSize 2, after three calls of Add the buffer holds the second and
\* the third entry and GetRecent(1) has returned the third
C39_Witness ==
    /\ globalBuffer.maxSize = 2
    /\ bufhist.added = 3
    /\ bufhist.cleared = 0
    /\ globalBuffer.entries = <<LogEntry(2), LogEntry(3)>>
    /\ bufhist.last.calls = 4
    /\ bufhist.last.limit = 1
    /\ bufhist.last.ret = <<LogEntry(3)>>

\* C40: whatever the overlap of the calls of SyncMetrics, MetricsSyncCount
\* is the number of calls that returned nil (their market query succeeded)
\* and Errors the number of calls that returned the error of their market
\* query; and an iteration of the market loop in which
\* calculateMarketMetrics fails leaves the counters alone and goes on to the
\* next market or to updateStats.
C40_Counters ==
    /\ [](/\ stats.MetricsSyncCount = runhist.ok
          /\ stats.Errors = runhist.failed)
    /\ [][\A c \in SyncCallers :
             (run[c].pc = "calc" /\ run'[c] # run[c] /\ run'[c].lastErr) =>
                 /\ run'[c].pc \in {"calc", "statsLock"}
                 /\ stats' = stats]_vars
====
